---- MODULE Spec2Model ----
(***************************************************************************)
(* Model of the marshalling core that src/run_all.py generates for every   *)
(* Domino endpoint: the C# helpers SerializeParamValue / SerializeArray-   *)
(* Value / SerializeScalarValue (request side), the request body built by  *)
(* generate_udf_method, and TryExtractResultValue (response side).         *)
(*                                                                         *)
(* Text is a sequence of one-character strings, so that escaping, joining  *)
(* and scanning are computed character by character as the code does.      *)
(* A double is the exact decimal m * 10^(-e) (e may be negative), which is *)
(* what double.ToString(InvariantCulture) prints for the magnitudes used   *)
(* here (fewer than 15 significant digits, no exponent notation).          *)
(***************************************************************************)
EXTENDS Integers, Sequences, FiniteSets, TLC

VARIABLES pc, call, ret, models, cursor, endpoints, apis, runs, securityProtocol, threads

vars == <<pc, call, ret, models, cursor, endpoints, apis, runs, securityProtocol, threads>>

\* the state of one operation of the generator or of a generated function
sheet == <<pc, call, ret, models, cursor, endpoints>>

\* the Model APIs of the project on the server, and the runs of
\* create_addin_endpoint.py against it
hosting == <<apis, runs>>

\* the calls of generated functions that the host runs at the same time:
\* the process-wide ServicePointManager.SecurityProtocol and the locals of
\* each calling thread
calls == <<securityProtocol, threads>>

\* the state of one generation run: the models of the project, the position
\* of the loop over them, and the endpoints emitted so far
discovery == <<models, cursor, endpoints>>

(***************************************************************************)
(* Characters and text helpers                                             *)
(***************************************************************************)
Q == "\""
BS == "\\"

Digits == <<"0", "1", "2", "3", "4", "5", "6", "7", "8", "9">>

DigitSet == {Digits[i] : i \in 1..10}

IsDigit(c) == c \in DigitSet

DigitVal(c) == (CHOOSE i \in 1..10 : Digits[i] = c) - 1

\* char.IsWhiteSpace, restricted to the white space characters used in the inputs
IsWhiteSpace(c) == c \in {" ", "\t", "\n", "\r"}

RECURSIVE Pow10(_)
Pow10(n) == IF n = 0 THEN 1 ELSE 10 * Pow10(n - 1)

Abs(n) == IF n < 0 THEN -n ELSE n

RECURSIVE NatText(_)
NatText(n) == IF n < 10 THEN <<Digits[n + 1]>> ELSE NatText(n \div 10) \o <<Digits[(n % 10) + 1]>>

\* n printed with at least w digits (custom format "0000" / "00")
RECURSIVE Pad(_, _)
Pad(n, w) == IF Len(NatText(n)) >= w THEN NatText(n) ELSE <<"0">> \o Pad(n, w - 1)

Sub(s, from, to) == IF from > to THEN <<>> ELSE SubSeq(s, from, to)

RECURSIVE TrimStart(_)
TrimStart(s) == IF s # <<>> /\ IsWhiteSpace(Head(s)) THEN TrimStart(Tail(s)) ELSE s

RECURSIVE TrimEnd(_)
TrimEnd(s) == IF s # <<>> /\ IsWhiteSpace(s[Len(s)]) THEN TrimEnd(Sub(s, 1, Len(s) - 1)) ELSE s

\* string.Trim()
Trim(s) == TrimEnd(TrimStart(s))

\* string.Replace(old, new) for a one-character pattern
RECURSIVE Replace(_, _, _)
Replace(s, old, new) ==
    IF s = <<>> THEN <<>>
    ELSE (IF Head(s) = old THEN new ELSE <<Head(s)>>) \o Replace(Tail(s), old, new)

StartsWith(s, p) == Len(s) >= Len(p) /\ Sub(s, 1, Len(p)) = p

UpperCase == <<"A", "B", "C", "D", "E", "F", "G", "H", "I", "J", "K", "L", "M",
               "N", "O", "P", "Q", "R", "S", "T", "U", "V", "W", "X", "Y", "Z">>

LowerCase == <<"a", "b", "c", "d", "e", "f", "g", "h", "i", "j", "k", "l", "m",
               "n", "o", "p", "q", "r", "s", "t", "u", "v", "w", "x", "y", "z">>

IsUpper(c) == \E i \in 1..26 : UpperCase[i] = c

IsLower(c) == \E i \in 1..26 : LowerCase[i] = c

LowerOf(c) == IF IsUpper(c) THEN LowerCase[CHOOSE i \in 1..26 : UpperCase[i] = c] ELSE c

UpperOf(c) == IF IsLower(c) THEN UpperCase[CHOOSE i \in 1..26 : LowerCase[i] = c] ELSE c

ToLower(s) == [i \in 1..Len(s) |-> LowerOf(s[i])]

(***************************************************************************)
(* Cell values handed to a generated function by the spreadsheet host       *)
(***************************************************************************)
Empty == [t |-> "empty"]

\* ExcelError.ExcelErrorNA (#N/A); an enum member whose numeric value is 42
ErrorSentinel == [t |-> "error", code |-> 42]

BoolCell(b) == [t |-> "bool", b |-> b]

\* the double m * 10^(-e)
NumCell(m, e) == [t |-> "num", m |-> m, e |-> e]

StrCell(s) == [t |-> "str", s |-> s]

\* rank-1 array
RowCell(cells) == [t |-> "row", cells |-> cells]

\* rank-2 array: cells[r][c]
GridCell(cells) == [t |-> "grid", rows |-> Len(cells), cols |-> Len(cells[1]), cells |-> cells]

\* an ExcelReference; ok says whether GetValue() succeeds, target is what it reads
RefCell(ok, target) == [t |-> "ref", ok |-> ok, target |-> target]

IsArrayValue(v) == v.t \in {"row", "grid"}

(***************************************************************************)
(* Numbers: formatting and parsing                                         *)
(***************************************************************************)
\* the same number with the trailing zeros of m moved into the exponent
RECURSIVE Canon(_, _)
Canon(m, e) ==
    IF m = 0 THEN [m |-> 0, e |-> 0]
    ELSE IF m % 10 = 0 THEN Canon(m \div 10, e - 1)
    ELSE [m |-> m, e |-> e]

RECURSIVE Zeros(_)
Zeros(n) == IF n <= 0 THEN <<>> ELSE <<"0">> \o Zeros(n - 1)

MagnitudeText_Unpadded(a, e) ==
    IF e <= 0 THEN NatText(a) \o Zeros(-e)
    ELSE NatText(a \div Pow10(e)) \o <<".">> \o NatText(a % Pow10(e))

\* the digits of the magnitude a * 10^(-e)
MagnitudeText(a, e) ==
    IF e <= 0 THEN NatText(a) \o Zeros(-e)
    ELSE NatText(a \div Pow10(e)) \o <<".">> \o Pad(a % Pow10(e), e)

CanonText(n) == (IF n.m < 0 THEN <<"-">> ELSE <<>>) \o MagnitudeText(Abs(n.m), n.e)

\* double.ToString(CultureInfo.InvariantCulture)
ToStringInvariant(m, e) == CanonText(Canon(m, e))

RECURSIVE DigitsValue(_)
DigitsValue(s) == IF s = <<>> THEN 0 ELSE 10 * DigitsValue(Sub(s, 1, Len(s) - 1)) + DigitVal(s[Len(s)])

AllDigits(s) == \A i \in 1..Len(s) : IsDigit(s[i])

RECURSIVE StripZerosEnd(_)
StripZerosEnd(s) == IF s # <<>> /\ s[Len(s)] = "0" THEN StripZerosEnd(Sub(s, 1, Len(s) - 1)) ELSE s

RECURSIVE StripZerosStart(_)
StripZerosStart(s) == IF s # <<>> /\ Head(s) = "0" THEN StripZerosStart(Tail(s)) ELSE s

NotANumber == [ok |-> FALSE, m |-> 0, e |-> 0]

\* the number with significant digits sig, the last of them exp places
\* after the decimal point
ParsedNumber(neg, sig, exp) ==
    IF sig = <<>> THEN [ok |-> TRUE, m |-> 0, e |-> 0]
    ELSE [ok |-> TRUE, m |-> (IF neg THEN -DigitsValue(sig) ELSE DigitsValue(sig)), e |-> exp]

\* whole: integer digits without leading zeros; frac: decimals without trailing zeros
ParseSignificant(neg, whole, frac) ==
    IF frac = <<>>
    THEN ParsedNumber(neg, StripZerosEnd(whole), Len(StripZerosEnd(whole)) - Len(whole))
    ELSE ParsedNumber(neg, StripZerosStart(whole \o frac), Len(frac))

ParseDigits(neg, ip, fp) ==
    IF AllDigits(ip) /\ AllDigits(fp) /\ Len(ip) + Len(fp) >= 1
    THEN ParseSignificant(neg, StripZerosStart(ip), StripZerosEnd(fp))
    ELSE NotANumber

\* u: the text after the sign; dots: the positions of its decimal points
ParseUnsigned(neg, u, dots) ==
    IF dots = {} THEN ParseDigits(neg, u, <<>>)
    ELSE IF Cardinality(dots) = 1
    THEN ParseDigits(neg, Sub(u, 1, (CHOOSE i \in dots : TRUE) - 1),
                     Sub(u, (CHOOSE i \in dots : TRUE) + 1, Len(u)))
    ELSE NotANumber

ParseSigned(neg, u) == ParseUnsigned(neg, u, {i \in 1..Len(u) : u[i] = "."})

ParseTrimmed(t) ==
    IF t # <<>> /\ Head(t) \in {"-", "+"} THEN ParseSigned(Head(t) = "-", Tail(t))
    ELSE ParseSigned(FALSE, t)

\* double.TryParse(s, NumberStyles.Any, InvariantCulture, out d) on the
\* grammar [ws] [sign] digits [. digits] [ws]; the inputs of this model use
\* no exponent, thousands separator, currency sign or parentheses
DoubleTryParse(s) == ParseTrimmed(Trim(s))

BoolOfText(t) ==
    IF t = <<"t", "r", "u", "e">> THEN [ok |-> TRUE, b |-> TRUE]
    ELSE IF t = <<"f", "a", "l", "s", "e">> THEN [ok |-> TRUE, b |-> FALSE]
    ELSE [ok |-> FALSE, b |-> FALSE]

\* bool.TryParse: white space trimmed, case-insensitive "True" / "False"
BoolTryParse(s) == BoolOfText(ToLower(Trim(s)))

FormatNumber(value, forceFloat) ==
    ToStringInvariant(value.m, value.e)
        \o (IF forceFloat /\ Canon(value.m, value.e).e <= 0 THEN <<".", "0">> ELSE <<>>)

\* value >= 10^k, for the double m * 10^(-e); m stays below 10^10
GEPow10(m, e, k) ==
    IF m <= 0 THEN FALSE
    ELSE IF k + e >= 10 THEN FALSE
    ELSE IF k + e < 0 THEN TRUE
    ELSE m >= Pow10(k + e)

\* |value| >= 10^9 for an integral value written with a negative exponent
IsHuge(m, e) == e < 0 /\ m # 0 /\ Len(NatText(Abs(m))) - e > 9

\* floor((q * d + r) * 10^k / d), digit by digit
RECURSIVE LongDiv(_, _, _, _)
LongDiv(q, r, k, d) ==
    IF k = 0 THEN q ELSE LongDiv(q * 10 + (r * 10) \div d, (r * 10) % d, k - 1, d)

(***************************************************************************)
(* Dates                                                                   *)
(***************************************************************************)
IsLeap(y) == (y % 4 = 0 /\ y % 100 # 0) \/ y % 400 = 0

DaysInMonth(y, mo) ==
    IF mo = 2 THEN (IF IsLeap(y) THEN 29 ELSE 28)
    ELSE IF mo \in {4, 6, 9, 11} THEN 30 ELSE 31

\* the steps of the proleptic Gregorian calendar: 400-year era, day of era,
\* year of era, day of the year counted from 1 March, month, day
CivilDate(y, mo, d) == [y |-> y + (IF mo <= 2 THEN 1 ELSE 0), mo |-> mo, d |-> d]

CivilFromMp(y, doy, mp) ==
    CivilDate(y, IF mp < 10 THEN mp + 3 ELSE mp - 9, doy - (153 * mp + 2) \div 5 + 1)

CivilFromDoy(y, doy) == CivilFromMp(y, doy, (5 * doy + 2) \div 153)

CivilFromYoe(era, doe, yoe) ==
    CivilFromDoy(yoe + era * 400, doe - (365 * yoe + yoe \div 4 - yoe \div 100))

CivilFromDoe(era, doe) ==
    CivilFromYoe(era, doe, (doe - doe \div 1460 + doe \div 36524 - doe \div 146096) \div 365)

CivilFromEra(era, z) == CivilFromDoe(era, z - era * 146097)

\* calendar day of the day that is `days` days after 1970-01-01
CivilFromDays(days) == CivilFromEra((days + 719468) \div 146097, days + 719468)

\* DateTime.ToString("yyyy-MM-dd", InvariantCulture)
FormatYMD(dt) == Pad(dt.y, 4) \o <<"-">> \o Pad(dt.mo, 2) \o <<"-">> \o Pad(dt.d, 2)

\* quotient q and remainder r of a division by p, rounded to the nearest
\* integer, a midpoint to the even one
RoundQuotient(q, r, p) ==
    IF 2 * r < p THEN q
    ELSE IF 2 * r > p THEN q + 1
    ELSE IF q % 2 = 0 THEN q ELSE q + 1

\* Math.Round(double) for the double m * 10^(-e), m >= 0, e > 0
RoundHalfEven(m, e) == RoundQuotient(m \div Pow10(e), m % Pow10(e), Pow10(e))

\* floor(Math.Round(value) / d) for a value >= 0
RoundedDiv(m, e, d) ==
    IF e > 0 THEN RoundHalfEven(m, e) \div d
    ELSE LongDiv(m \div d, m % d, -e, d)

\* whole days of an OLE Automation date, counted from 1899-12-30; the integer
\* part of the value is the day, also for negative values (|value| < 10^9)
OADays(m, e) ==
    IF e <= 0 THEN m * Pow10(-e)
    ELSE IF m >= 0 THEN m \div Pow10(e) ELSE -((-m) \div Pow10(e))

\* 1899-12-30 counted from 1970-01-01
OAEpoch == -25569

\* DateTime.FromOADate accepts OAMin < value < OAMax
OAMin == -657435
OAMax == 2958466

MillisPerDay == 86400000
SecondsPerDay == 86400

\* DateTime.FromOADate(value) throws
OADateThrows(days, huge) == huge \/ days <= OAMin \/ days >= OAMax

EpochDays_FromFirstOfJanuary(value) ==
    IF GEPow10(value.m, value.e, 12) THEN RoundedDiv(value.m, value.e, MillisPerDay)
    ELSE IF GEPow10(value.m, value.e, 9) THEN RoundedDiv(value.m, value.e, SecondsPerDay)
    ELSE OAEpoch + 2 + OADays(value.m, value.e)

EpochDays_SecondsFirst(value) ==
    IF GEPow10(value.m, value.e, 9) THEN RoundedDiv(value.m, value.e, SecondsPerDay)
    ELSE IF GEPow10(value.m, value.e, 12) THEN RoundedDiv(value.m, value.e, MillisPerDay)
    ELSE OAEpoch + OADays(value.m, value.e)

\* the day, counted from 1970-01-01, that the three branches take value for
EpochDays(value) ==
    IF GEPow10(value.m, value.e, 12) THEN RoundedDiv(value.m, value.e, MillisPerDay)
    ELSE IF GEPow10(value.m, value.e, 9) THEN RoundedDiv(value.m, value.e, SecondsPerDay)
    ELSE OAEpoch + OADays(value.m, value.e)

FormatDateFromNumber(value) ==
    IF /\ ~GEPow10(value.m, value.e, 9)
       /\ OADateThrows(IF IsHuge(value.m, value.e) THEN 0 ELSE OADays(value.m, value.e),
                       IsHuge(value.m, value.e))
    THEN ToStringInvariant(value.m, value.e)
    ELSE FormatYMD(CivilFromDays(EpochDays(value)))

ValidDate(y, mo, d) ==
    IF y >= 1 /\ mo \in 1..12 /\ d >= 1 /\ d <= DaysInMonth(y, mo)
    THEN [ok |-> TRUE, y |-> y, mo |-> mo, d |-> d]
    ELSE [ok |-> FALSE, y |-> 0, mo |-> 0, d |-> 0]

\* DateTime.TryParse on the one date form the inputs use: YYYY-MM-DD
DateTimeTryParse(s) ==
    IF /\ Len(s) = 10
       /\ s[5] = "-" /\ s[8] = "-"
       /\ \A i \in {1, 2, 3, 4, 6, 7, 9, 10} : IsDigit(s[i])
    THEN ValidDate(DigitsValue(Sub(s, 1, 4)), DigitsValue(Sub(s, 6, 7)), DigitsValue(Sub(s, 9, 10)))
    ELSE [ok |-> FALSE, y |-> 0, mo |-> 0, d |-> 0]

(***************************************************************************)
(* ValueSerializer: the generated C# helpers                               *)
(***************************************************************************)
Kinds == {"String", "Number", "Bool", "Date"}

TextNull == <<"n", "u", "l", "l">>
TextTrue == <<"t", "r", "u", "e">>
TextFalse == <<"f", "a", "l", "s", "e">>

\* bool.ToString()
TextBoolTrue == <<"T", "r", "u", "e">>
TextBoolFalse == <<"F", "a", "l", "s", "e">>

\* Enum.ToString() of ExcelError.ExcelErrorNA
TextExcelErrorNA == <<"E", "x", "c", "e", "l", "E", "r", "r", "o", "r", "N", "A">>

\* Object.ToString() of object[] and object[,]
TextObjectArray1 == <<"S", "y", "s", "t", "e", "m", ".", "O", "b", "j", "e", "c", "t", "[", "]">>
TextObjectArray2 == <<"S", "y", "s", "t", "e", "m", ".", "O", "b", "j", "e", "c", "t", "[", ",", "]">>

\* ToString() of an ExcelReference whose GetValue() failed (one opaque token)
TextExcelReference == <<"ExcelReference">>

\* Convert.ToString(value, CultureInfo.InvariantCulture) / value.ToString()
ConvertToString(value) ==
    CASE value.t = "num" -> ToStringInvariant(value.m, value.e)
      [] value.t = "bool" -> (IF value.b THEN TextBoolTrue ELSE TextBoolFalse)
      [] value.t = "str" -> value.s
      [] value.t = "error" -> TextExcelErrorNA
      [] value.t = "row" -> TextObjectArray1
      [] value.t = "grid" -> TextObjectArray2
      [] value.t = "ref" -> TextExcelReference
      [] OTHER -> <<>>

EscapeJsonString_QuotesFirst(value) == Replace(Replace(value, Q, <<BS, Q>>), BS, <<BS, BS>>)

EscapeJsonString(value) == Replace(Replace(value, BS, <<BS, BS>>), Q, <<BS, Q>>)

\* the string branch once s is trimmed and not empty: num and parsed are the
\* outcomes of double.TryParse and DateTime.TryParse
FormatParsedDate(s, num, parsed) ==
    IF num.ok THEN FormatDateFromNumber(num)
    ELSE IF parsed.ok THEN FormatYMD(parsed)
    ELSE s

FormatDateString(s) ==
    IF s = <<>> THEN <<>> ELSE FormatParsedDate(s, DoubleTryParse(s), DateTimeTryParse(s))

FormatDateParam(value) ==
    CASE value.t = "empty" -> <<>>
      [] value.t = "num" -> FormatDateFromNumber(value)
      [] value.t = "str" -> FormatDateString(Trim(value.s))
      [] OTHER -> ConvertToString(value)

\* the double that SerializeNumberValue formats: the value itself, the string
\* parsed by double.TryParse, or Convert.ToDouble(value) for anything else
\* (a bool gives 1 / 0, an enum member its numeric value, an array or a
\* reference throws InvalidCastException); ok = FALSE where none is had
NumberOf(value) ==
    CASE value.t = "num" -> [ok |-> TRUE, m |-> value.m, e |-> value.e]
      [] value.t = "str" -> DoubleTryParse(value.s)
      [] value.t = "bool" -> [ok |-> TRUE, m |-> (IF value.b THEN 1 ELSE 0), e |-> 0]
      [] value.t = "error" -> [ok |-> TRUE, m |-> value.code, e |-> 0]
      [] OTHER -> NotANumber

NumberText(value, forceFloat, number) ==
    IF number.ok THEN FormatNumber(number, forceFloat)
    ELSE <<Q>> \o EscapeJsonString(ConvertToString(value)) \o <<Q>>

SerializeNumberValue(value, forceFloat) == NumberText(value, forceFloat, NumberOf(value))

\* the Bool case for a string: parsedBool and parsedNum are the outcomes of
\* bool.TryParse and double.TryParse
StringTruth(parsedBool, parsedNum) ==
    IF parsedBool.ok THEN parsedBool.b
    ELSE IF parsedNum.ok THEN parsedNum.m # 0
    ELSE FALSE

Truth(value) ==
    CASE value.t = "bool" -> value.b
      [] value.t = "num" -> value.m # 0
      [] value.t = "str" -> StringTruth(BoolTryParse(value.s), DoubleTryParse(value.s))
      [] OTHER -> FALSE

SerializeBoolValue(value) == IF Truth(value) THEN TextTrue ELSE TextFalse

SerializeScalarValue(value, kind) ==
    IF value.t = "empty" THEN TextNull
    ELSE CASE kind = "String" -> <<Q>> \o EscapeJsonString(ConvertToString(value)) \o <<Q>>
           [] kind = "Date" -> <<Q>> \o EscapeJsonString(FormatDateParam(value)) \o <<Q>>
           [] kind = "Bool" -> SerializeBoolValue(value)
           [] OTHER -> SerializeNumberValue(value, FALSE)

IsEmptyCell_KeepErrors(value) == value.t = "empty"

IsEmptyCell(value) == value.t \in {"empty", "error"}

\* the text appended for one retained array element: an element of a Number
\* parameter is turned into a string and serialized with ParamKind.String
ElementText(value, kind) ==
    SerializeScalarValue(IF kind = "Number" THEN StrCell(ConvertToString(value)) ELSE value,
                         IF kind = "Number" THEN "String" ELSE kind)

\* the loop body over cells[i..]: sb is the builder so far, appended the flag
RECURSIVE AppendCells(_, _, _, _, _)
AppendCells(sb, appended, cells, i, kind) ==
    IF i > Len(cells) THEN sb
    ELSE IF IsEmptyCell(cells[i]) THEN AppendCells(sb, appended, cells, i + 1, kind)
    ELSE AppendCells(sb \o (IF appended THEN <<",">> ELSE <<>>) \o ElementText(cells[i], kind),
                     TRUE, cells, i + 1, kind)

AppendRows_Flat(sb, array, r, kind) ==
    AppendCells(sb, FALSE, [i \in 1..(array.rows * array.cols) |->
                               array.cells[((i - 1) \div array.cols) + 1][((i - 1) % array.cols) + 1]],
                1, kind)

\* the loop over the rows r.. of a grid with more than one row and column
RECURSIVE AppendRows(_, _, _, _)
AppendRows(sb, array, r, kind) ==
    IF r > array.rows THEN sb
    ELSE AppendRows(AppendCells(sb \o (IF r > 1 THEN <<",">> ELSE <<>>) \o <<"[">>,
                                FALSE, array.cells[r], 1, kind) \o <<"]">>,
                    array, r + 1, kind)

\* the cells that the single loop runs over: a rank-1 array, or the one row
\* or the one column of a grid
SingleDimension(array) ==
    IF array.t = "row" THEN array.cells
    ELSE IF array.rows = 1 THEN array.cells[1]
    ELSE [i \in 1..array.rows |-> array.cells[i][1]]

SerializeArrayValue(array, kind) ==
    IF array.t = "row" \/ (array.t = "grid" /\ (array.rows = 1 \/ array.cols = 1))
    THEN AppendCells(<<"[">>, FALSE, SingleDimension(array), 1, kind) \o <<"]">>
    ELSE IF array.t = "grid"
    THEN AppendRows(<<"[">>, array, 1, kind) \o <<"]">>
    ELSE SerializeScalarValue(array, kind)

NormalizeExcelValue(value) ==
    IF value.t = "ref" /\ value.ok THEN value.target ELSE value

\* the value handed to SerializeScalarValue: the cell of a 1 x 1 grid when
\* the parameter is no array, else the value itself
ScalarOperand(v, allowArray) ==
    IF ~allowArray /\ v.t = "grid" /\ v.rows = 1 /\ v.cols = 1 THEN v.cells[1][1] ELSE v

\* SerializeParamValue after NormalizeExcelValue
SerializeNormalized(v, kind, allowArray) ==
    IF v.t = "empty" THEN TextNull
    ELSE IF allowArray /\ IsArrayValue(v) THEN SerializeArrayValue(v, kind)
    ELSE SerializeScalarValue(ScalarOperand(v, allowArray), kind)

SerializeParamValue(value, kind, allowArray) ==
    SerializeNormalized(NormalizeExcelValue(value), kind, allowArray)

(***************************************************************************)
(* Request body: the jsonPayload expression that generate_udf_method emits *)
(***************************************************************************)
\* the ParamKind chosen for a parameter type
ParamKindOf(type) ==
    LET param_kind == IF type = "object" THEN "string" ELSE type
    IN  CASE param_kind = "string" -> "String"
          [] param_kind = "bool" -> "Bool"
          [] param_kind = "date" -> "Date"
          [] OTHER -> "Number"

Separator_Always(i, n) == <<",", " ">>

\* the text emitted after the i-th of n parameters
Separator(i, n) == IF i = n THEN <<>> ELSE <<",", " ">>

\* one element of json_parts, evaluated with the argument of the call
JsonPart(p, arg, i, n) ==
    <<Q>> \o p.name \o <<Q, ":", " ">>
        \o SerializeParamValue(arg, ParamKindOf(p.type), p.is_array)
        \o Separator(i, n)

RECURSIVE JsonInner(_, _, _)
JsonInner(params, args, i) ==
    IF i > Len(params) THEN <<>>
    ELSE JsonPart(params[i], args[i], i, Len(params)) \o JsonInner(params, args, i + 1)

\* jsonPayload
JsonPayload(params, args) == <<"{", "\"", "d", "a", "t", "a", "\"", ":", " ", "{">> \o JsonInner(params, args, 1) \o <<"}", "}">>

(***************************************************************************)
(* ResultExtractor: TryExtractResultValue                                  *)
(***************************************************************************)
ErrNoResult == <<"E", "r", "r", "o", "r", ":", " ", "N", "o", " ", "r", "e", "s", "u", "l", "t", " ", "f", "i", "e", "l", "d", " ", "i", "n", " ", "r", "e", "s", "p", "o", "n", "s", "e">>
ErrEmptyResult == <<"E", "r", "r", "o", "r", ":", " ", "E", "m", "p", "t", "y", " ", "r", "e", "s", "u", "l", "t", " ", "f", "i", "e", "l", "d", " ", "i", "n", " ", "r", "e", "s", "p", "o", "n", "s", "e">>
ErrUnterminatedValue == <<"E", "r", "r", "o", "r", ":", " ", "U", "n", "t", "e", "r", "m", "i", "n", "a", "t", "e", "d", " ", "r", "e", "s", "u", "l", "t", " ", "v", "a", "l", "u", "e", " ", "i", "n", " ", "r", "e", "s", "p", "o", "n", "s", "e">>
ErrUnterminatedString == <<"E", "r", "r", "o", "r", ":", " ", "U", "n", "t", "e", "r", "m", "i", "n", "a", "t", "e", "d", " ", "s", "t", "r", "i", "n", "g", " ", "r", "e", "s", "u", "l", "t", " ", "i", "n", " ", "r", "e", "s", "p", "o", "n", "s", "e">>

ResultKey == <<"\"", "r", "e", "s", "u", "l", "t", "\"">>

Found(value) == [found |-> TRUE, value |-> value, error |-> <<>>]

Failed(error) == [found |-> FALSE, value |-> <<>>, error |-> error]

\* the first position at or after i that holds no white space
RECURSIVE SkipWhiteSpace(_, _)
SkipWhiteSpace(json, i) ==
    IF i <= Len(json) /\ IsWhiteSpace(json[i]) THEN SkipWhiteSpace(json, i + 1) ELSE i

\* the positions where "result"\s*: matches
KeyMatches(json) ==
    {i \in 1..Len(json) :
        /\ i + Len(ResultKey) - 1 <= Len(json)
        /\ Sub(json, i, i + Len(ResultKey) - 1) = ResultKey
        /\ SkipWhiteSpace(json, i + Len(ResultKey)) <= Len(json)
        /\ json[SkipWhiteSpace(json, i + Len(ResultKey))] = ":"}

Min(S) == CHOOSE x \in S : \A y \in S : x <= y

\* Regex.Match(json, "result"\s*:): the leftmost match; next is the position
\* after the colon (match.Index + match.Length)
RegexMatchKey(json) ==
    IF KeyMatches(json) = {} THEN [success |-> FALSE, next |-> 0]
    ELSE [success |-> TRUE,
          next |-> SkipWhiteSpace(json, Min(KeyMatches(json)) + Len(ResultKey)) + 1]

RECURSIVE ScanBracket_NoStrings(_, _, _, _, _, _, _, _)
ScanBracket_NoStrings(json, i, open, close, depth, inString, escape, startIndex) ==
    IF i > Len(json) THEN Failed(ErrUnterminatedValue)
    ELSE LET ch == json[i] IN
        IF ch = open
        THEN ScanBracket_NoStrings(json, i + 1, open, close, depth + 1, FALSE, FALSE, startIndex)
        ELSE IF ch = close
        THEN IF depth - 1 = 0 THEN Found(Trim(Sub(json, startIndex, i)))
             ELSE ScanBracket_NoStrings(json, i + 1, open, close, depth - 1, FALSE, FALSE, startIndex)
        ELSE ScanBracket_NoStrings(json, i + 1, open, close, depth, FALSE, FALSE, startIndex)

RECURSIVE ScanBracket_OpenAtEnd(_, _, _, _, _, _, _, _)
ScanBracket_OpenAtEnd(json, i, open, close, depth, inString, escape, startIndex) ==
    IF i > Len(json) THEN Found(Trim(Sub(json, startIndex, Len(json))))
    ELSE LET ch == json[i] IN
        IF inString
        THEN IF escape THEN ScanBracket_OpenAtEnd(json, i + 1, open, close, depth, TRUE, FALSE, startIndex)
             ELSE IF ch = BS THEN ScanBracket_OpenAtEnd(json, i + 1, open, close, depth, TRUE, TRUE, startIndex)
             ELSE ScanBracket_OpenAtEnd(json, i + 1, open, close, depth, ch # Q, FALSE, startIndex)
        ELSE IF ch = Q THEN ScanBracket_OpenAtEnd(json, i + 1, open, close, depth, TRUE, FALSE, startIndex)
        ELSE IF ch = open
        THEN ScanBracket_OpenAtEnd(json, i + 1, open, close, depth + 1, FALSE, FALSE, startIndex)
        ELSE IF ch = close
        THEN IF depth - 1 = 0 THEN Found(Trim(Sub(json, startIndex, i)))
             ELSE ScanBracket_OpenAtEnd(json, i + 1, open, close, depth - 1, FALSE, FALSE, startIndex)
        ELSE ScanBracket_OpenAtEnd(json, i + 1, open, close, depth, FALSE, FALSE, startIndex)

\* the for loop over a value that starts with [ or {, from position i
RECURSIVE ScanBracket(_, _, _, _, _, _, _, _)
ScanBracket(json, i, open, close, depth, inString, escape, startIndex) ==
    IF i > Len(json) THEN Failed(ErrUnterminatedValue)
    ELSE LET ch == json[i] IN
        IF inString
        THEN IF escape THEN ScanBracket(json, i + 1, open, close, depth, TRUE, FALSE, startIndex)
             ELSE IF ch = BS THEN ScanBracket(json, i + 1, open, close, depth, TRUE, TRUE, startIndex)
             ELSE ScanBracket(json, i + 1, open, close, depth, ch # Q, FALSE, startIndex)
        ELSE IF ch = Q THEN ScanBracket(json, i + 1, open, close, depth, TRUE, FALSE, startIndex)
        ELSE IF ch = open
        THEN ScanBracket(json, i + 1, open, close, depth + 1, FALSE, FALSE, startIndex)
        ELSE IF ch = close
        THEN IF depth - 1 = 0 THEN Found(Trim(Sub(json, startIndex, i)))
             ELSE ScanBracket(json, i + 1, open, close, depth - 1, FALSE, FALSE, startIndex)
        ELSE ScanBracket(json, i + 1, open, close, depth, FALSE, FALSE, startIndex)

\* the for loop over a value that starts with a quote, from position i
RECURSIVE ScanString(_, _, _, _)
ScanString(json, i, escape, startIndex) ==
    IF i > Len(json) THEN Failed(ErrUnterminatedString)
    ELSE IF escape THEN ScanString(json, i + 1, FALSE, startIndex)
    ELSE IF json[i] = BS THEN ScanString(json, i + 1, TRUE, startIndex)
    ELSE IF json[i] = Q THEN Found(Trim(Sub(json, startIndex, i)))
    ELSE ScanString(json, i + 1, FALSE, startIndex)

\* the while loop over a bare primitive: the position where it stops
RECURSIVE ScanPrimitive(_, _)
ScanPrimitive(json, i) ==
    IF i <= Len(json) /\ json[i] \notin {",", "}", "]"} THEN ScanPrimitive(json, i + 1) ELSE i

TryExtractResultValue(json) ==
    LET match == RegexMatchKey(json)
        i == SkipWhiteSpace(json, match.next)
    IN  IF ~match.success THEN Failed(ErrNoResult)
        ELSE IF i > Len(json) THEN Failed(ErrEmptyResult)
        ELSE IF json[i] \in {"[", "{"}
        THEN ScanBracket(json, i, json[i], IF json[i] = "[" THEN "]" ELSE "}", 0, FALSE, FALSE, i)
        ELSE IF json[i] = Q THEN ScanString(json, i + 1, FALSE, i)
        ELSE Found(Trim(Sub(json, i, ScanPrimitive(json, i) - 1)))

(***************************************************************************)
(* SpillShaper: ParseResult, Parse2DArray, Parse1DArray, ParseSingleValue  *)
(***************************************************************************)
ErrInvalid2D == <<"E", "r", "r", "o", "r", ":", " ", "I", "n", "v", "a", "l", "i", "d", " ", "2", "D", " ", "a", "r", "r", "a", "y", " ", "f", "o", "r", "m", "a", "t">>

\* string.Trim('"'): every leading and every trailing double quote removed
RECURSIVE TrimQuotesStart(_)
TrimQuotesStart(s) == IF s # <<>> /\ Head(s) = Q THEN TrimQuotesStart(Tail(s)) ELSE s

RECURSIVE TrimQuotesEnd(_)
TrimQuotesEnd(s) == IF s # <<>> /\ s[Len(s)] = Q THEN TrimQuotesEnd(Sub(s, 1, Len(s) - 1)) ELSE s

TrimQuotes(s) == TrimQuotesEnd(TrimQuotesStart(s))

\* the double when double.TryParse succeeds, else the text without quotes
NumberOrText(trimmed, numVal) ==
    IF numVal.ok THEN NumCell(numVal.m, numVal.e) ELSE StrCell(TrimQuotes(trimmed))

ParseTrimmedValue(trimmed) == NumberOrText(trimmed, DoubleTryParse(trimmed))

ParseSingleValue(value) == ParseTrimmedValue(Trim(value))

\* string.Split(',', RemoveEmptyEntries) of s[i..]: cur is the entry being
\* read, acc the entries read so far
RECURSIVE Split(_, _, _, _)
Split(s, i, cur, acc) ==
    IF i > Len(s) THEN (IF cur = <<>> THEN acc ELSE Append(acc, cur))
    ELSE IF s[i] = "," THEN Split(s, i + 1, <<>>, IF cur = <<>> THEN acc ELSE Append(acc, cur))
    ELSE Split(s, i + 1, Append(cur, s[i]), acc)

\* foreach (var part in parts) Add(ParseSingleValue(part.Trim()))
ParseValues(parts) == [k \in 1..Len(parts) |-> ParseSingleValue(Trim(parts[k]))]

IsNullOrWhiteSpace(s) == \A k \in 1..Len(s) : IsWhiteSpace(s[k])

\* the first position from i on that holds a bracket, 0 if there is none
RECURSIVE NextBracket(_, _)
NextBracket(s, i) ==
    IF i > Len(s) THEN 0
    ELSE IF s[i] \in {"[", "]"} THEN i
    ELSE NextBracket(s, i + 1)

\* Regex.Matches(arrayStr, "\[([^\[\]]*)\]"): group 1 of every match, left
\* to right; open is the position of the last "[" seen and not yet matched
RECURSIVE RowMatches(_, _, _, _)
RowMatches(s, open, j, acc) ==
    IF j = 0 THEN acc
    ELSE IF s[j] = "[" THEN RowMatches(s, j, NextBracket(s, j + 1), acc)
    ELSE IF open = 0 THEN RowMatches(s, 0, NextBracket(s, j + 1), acc)
    ELSE RowMatches(s, 0, NextBracket(s, j + 1), Append(acc, Sub(s, open + 1, j - 1)))

ParseRow(rowContent) ==
    IF IsNullOrWhiteSpace(rowContent) THEN <<>> ELSE ParseValues(Split(rowContent, 1, <<>>, <<>>))

RECURSIVE MaxCount(_, _, _)
MaxCount(rows, r, maxCols) ==
    IF r > Len(rows) THEN maxCols
    ELSE MaxCount(rows, r + 1, IF Len(rows[r]) > maxCols THEN Len(rows[r]) ELSE maxCols)

\* object[rows.Count, maxCols] filled from the rows, short rows padded
SpillArray_NoPadding(rows, maxCols) ==
    [t |-> "grid", rows |-> Len(rows), cols |-> maxCols, cells |-> rows]

SpillArray(rows, maxCols) ==
    [t |-> "grid", rows |-> Len(rows), cols |-> maxCols,
     cells |-> [r \in 1..Len(rows) |->
                  [c \in 1..maxCols |-> IF c <= Len(rows[r]) THEN rows[r][c] ELSE StrCell(<<>>)]]]

Collapse_Never(rows, maxCols) ==
    IF Len(rows) = 0 \/ maxCols = 0 THEN StrCell(<<>>)
    ELSE SpillArray(rows, maxCols)

\* the edge cases and the grid, once the rows are parsed
Collapse(rows, maxCols) ==
    IF Len(rows) = 0 \/ maxCols = 0 THEN StrCell(<<>>)
    ELSE IF Len(rows) = 1 /\ Len(rows[1]) = 1 THEN rows[1][1]
    ELSE SpillArray(rows, maxCols)

CollapseRows(rows) == Collapse(rows, MaxCount(rows, 1, 0))

ParseRows(rowMatches) == CollapseRows([r \in 1..Len(rowMatches) |-> ParseRow(rowMatches[r])])

ShapeRowMatches(rowMatches) ==
    IF Len(rowMatches) = 0 THEN StrCell(ErrInvalid2D) ELSE ParseRows(rowMatches)

Parse2DArray(arrayStr) == ShapeRowMatches(RowMatches(arrayStr, 0, NextBracket(arrayStr, 1), <<>>))

RowOf(results) ==
    IF Len(results) = 1 THEN results[1] ELSE SpillArray(<<results>>, Len(results))

ParseInner(inner) ==
    IF inner = <<>> THEN StrCell(<<>>) ELSE RowOf(ParseValues(Split(inner, 1, <<>>, <<>>)))

Parse1DArray(arrayStr) == ParseInner(Trim(Sub(arrayStr, 2, Len(arrayStr) - 1)))

\* the dispatch of ParseResult on the extracted fragment
ShapeResult(resultValue) ==
    IF StartsWith(resultValue, <<"[", "[">>) THEN Parse2DArray(resultValue)
    ELSE IF StartsWith(resultValue, <<"[">>) /\ resultValue[Len(resultValue)] = "]"
    THEN Parse1DArray(resultValue)
    ELSE ParseSingleValue(resultValue)

ShapeExtracted(extracted) ==
    IF extracted.found THEN ShapeResult(extracted.value) ELSE StrCell(extracted.error)

ParseResult(json) == ShapeExtracted(TryExtractResultValue(json))

(***************************************************************************)
(* GeneratedFunction: the try / catch of a generated function around the   *)
(* request                                                                 *)
(***************************************************************************)
ApiErrorPrefix == <<"A", "P", "I", " ", "E", "r", "r", "o", "r", ":", " ">>

ErrorPrefix == <<"E", "r", "r", "o", "r", ":", " ">>

\* the function returns value to Excel
Returned(value) == [returned |-> TRUE, value |-> value]

\* the exception leaves the function
Escaped(exception) == [returned |-> FALSE, value |-> exception]

\* what client.UploadString does: it returns the response body, or throws
UploadReturns(json) == [kind |-> "response", json |-> json]

\* a WebException with ex.Response: the status line and headers arrived; the
\* body is read from the connection in the handler, which succeeds or throws
UploadThrowsWithResponse(body, readable) ==
    [kind |-> "WebException", has_response |-> TRUE, body |-> body, readable |-> readable]

\* a WebException whose Response is null
UploadThrowsWebException(message) ==
    [kind |-> "WebException", has_response |-> FALSE, message |-> message]

\* any other exception of the try block
TryThrows(message) == [kind |-> "Exception", message |-> message]

MessageOfRead == <<"U", "n", "a", "b", "l", "e", " ", "t", "o", " ", "r", "e", "a", "d", " ", "d", "a", "t", "a", " ", "f", "r", "o", "m", " ", "t", "h", "e", " ", "t", "r", "a", "n", "s", "p", "o", "r", "t", " ", "c", "o", "n", "n", "e", "c", "t", "i", "o", "n">>

\* catch (WebException ex): an exception thrown by reader.ReadToEnd() inside
\* the handler is not caught by the catch (Exception) that follows it
CatchWebException(ex) ==
    IF ex.has_response
    THEN IF ex.readable THEN Returned(StrCell(ApiErrorPrefix \o ex.body))
         ELSE Escaped(MessageOfRead)
    ELSE Returned(StrCell(ErrorPrefix \o ex.message))

\* catch (Exception ex)
CatchException(ex) == Returned(StrCell(ErrorPrefix \o ex.message))

\* the body of a generated function after jsonPayload is built
GeneratedFunction(outcome) ==
    CASE outcome.kind = "response" -> Returned(ParseResult(outcome.json))
      [] outcome.kind = "WebException" -> CatchWebException(outcome)
      [] OTHER -> CatchException(outcome)

(***************************************************************************)
(* TypeCatalog: the Python values of a signature and an example, and the   *)
(* mapping of a declared type, a field name and a sample to a type         *)
(***************************************************************************)
PyNone == [t |-> "none"]

PyBool(b) == [t |-> "bool", b |-> b]

PyInt(n) == [t |-> "int", n |-> n]

PyFloat(m, e) == [t |-> "float", m |-> m, e |-> e]

PyStr(s) == [t |-> "str", s |-> s]

\* a list or tuple
PyList(items) == [t |-> "list", items |-> items]

\* a dict: its (key, value) pairs in insertion order, keys distinct
PyDict(items) == [t |-> "dict", items |-> items]

\* bool(value)
Truthy(value) ==
    CASE value.t = "none" -> FALSE
      [] value.t = "bool" -> value.b
      [] value.t = "int" -> value.n # 0
      [] value.t = "float" -> value.m # 0
      [] value.t = "str" -> value.s # <<>>
      [] OTHER -> value.items # <<>>

\* key in d
HasKey(d, key) == \E k \in 1..Len(d.items) : d.items[k].key = key

\* d[key]
DictGet(d, key) == d.items[CHOOSE k \in 1..Len(d.items) : d.items[k].key = key].value

\* the last position of the run of characters of the class that starts at i
RECURSIVE RunEnd(_, _, _)
RunEnd(s, i, class) ==
    IF i < Len(s) /\ class[s[i + 1]] THEN RunEnd(s, i + 1, class) ELSE i

CharClass(c) ==
    IF IsLower(c) THEN "lower" ELSE IF IsUpper(c) THEN "upper" ELSE IF IsDigit(c) THEN "digit" ELSE "other"

ClassOf(s, kind) == [c \in {s[k] : k \in 1..Len(s)} |-> CharClass(c) = kind]

\* re.findall(r"[A-Z]?[a-z]+|[0-9]+|[A-Z]+(?![a-z])", name) from position i
RECURSIVE FindTokens(_, _, _)
FindTokens(s, i, acc) ==
    IF i > Len(s) THEN acc
    ELSE CASE CharClass(s[i]) = "lower" ->
                FindTokens(s, RunEnd(s, i, ClassOf(s, "lower")) + 1,
                           Append(acc, Sub(s, i, RunEnd(s, i, ClassOf(s, "lower")))))
           [] CharClass(s[i]) = "digit" ->
                FindTokens(s, RunEnd(s, i, ClassOf(s, "digit")) + 1,
                           Append(acc, Sub(s, i, RunEnd(s, i, ClassOf(s, "digit")))))
           [] CharClass(s[i]) = "upper" /\ i < Len(s) /\ IsLower(s[i + 1]) ->
                FindTokens(s, RunEnd(s, i + 1, ClassOf(s, "lower")) + 1,
                           Append(acc, Sub(s, i, RunEnd(s, i + 1, ClassOf(s, "lower")))))
           [] CharClass(s[i]) = "upper" /\ ~(i < Len(s) /\ IsLower(s[i + 1])) ->
                IF /\ RunEnd(s, i, ClassOf(s, "upper")) < Len(s)
                   /\ IsLower(s[RunEnd(s, i, ClassOf(s, "upper")) + 1])
                THEN FindTokens(s, RunEnd(s, i, ClassOf(s, "upper")),
                                Append(acc, Sub(s, i, RunEnd(s, i, ClassOf(s, "upper")) - 1)))
                ELSE FindTokens(s, RunEnd(s, i, ClassOf(s, "upper")) + 1,
                                Append(acc, Sub(s, i, RunEnd(s, i, ClassOf(s, "upper")))))
           [] OTHER -> FindTokens(s, i + 1, acc)

Lowered(tokens) == [k \in 1..Len(tokens) |-> ToLower(tokens[k])]

\* the tokens in lower case; when findall finds nothing the name holds no
\* ASCII letter or digit, and re.split gives only empty strings
_split_param_tokens(name) == Lowered(FindTokens(name, 1, <<>>))

DateTokens == {<<"d", "a", "t", "e">>, <<"d", "t">>, <<"d", "o", "b">>}

\* re.match(r"^\d{4}[-/]\d{2}[-/]\d{2}([ T].*)?$", stripped)
MatchesDatePattern(v) ==
    /\ Len(v) >= 10
    /\ \A k \in {1, 2, 3, 4, 6, 7, 9, 10} : IsDigit(v[k])
    /\ v[5] \in {"-", "/"} /\ v[8] \in {"-", "/"}
    /\ (Len(v) = 10 \/ v[11] \in {" ", "T"})

_looks_like_date_string(value) == value # <<>> /\ MatchesDatePattern(Trim(value))

HasDateToken(tokens) == \E k \in 1..Len(tokens) : tokens[k] \in DateTokens

_is_date_param(name, value) ==
    \/ HasDateToken(_split_param_tokens(name))
    \/ (value.t = "str" /\ _looks_like_date_string(value.s))

infer_parameter_type(value) ==
    CASE value.t = "bool" -> "bool"
      [] value.t = "int" -> "double"
      [] value.t = "float" -> "double"
      [] value.t = "str" -> "string"
      [] OTHER -> "object"

BoolTypes == {<<"b", "o", "o", "l", "e", "a", "n">>, <<"b", "o", "o", "l">>}
IntegerTypes == {<<"i", "n", "t", "e", "g", "e", "r">>, <<"l", "o", "n", "g">>, <<"i", "n", "t">>, <<"s", "h", "o", "r", "t">>}
FloatTypes == {<<"d", "o", "u", "b", "l", "e">>, <<"f", "l", "o", "a", "t">>, <<"f", "l", "o", "a", "t", "3", "2">>, <<"f", "l", "o", "a", "t", "6", "4">>}
DateTypes == {<<"d", "a", "t", "e">>, <<"d", "a", "t", "e", "t", "i", "m", "e">>}
StringTypes == {<<"s", "t", "r", "i", "n", "g">>, <<"s", "t", "r">>}

\* the table of _map_mlflow_type for a type name in lower case
MapLower_DateOverridesAll(lower, name, example) ==
    IF _is_date_param(name, example) THEN "date"
    ELSE IF lower \in BoolTypes THEN "bool"
    ELSE IF lower \in IntegerTypes \cup FloatTypes THEN "double"
    ELSE IF lower \in DateTypes THEN "date"
    ELSE IF lower \in StringTypes THEN "string"
    ELSE "object"

MapLower(lower, name, example) ==
    IF lower \in BoolTypes THEN "bool"
    ELSE IF lower \in IntegerTypes THEN "double"
    ELSE IF lower \in FloatTypes THEN "double"
    ELSE IF lower \in DateTypes THEN "date"
    ELSE IF lower \in StringTypes THEN (IF _is_date_param(name, example) THEN "date" ELSE "string")
    ELSE "object"

Untyped(name, example) ==
    IF _is_date_param(name, example) THEN "string" ELSE infer_parameter_type(example)

_map_mlflow_type(type_name, name, example) ==
    IF type_name = <<>> THEN Untyped(name, example)
    ELSE MapLower(ToLower(type_name), name, example)

\* the first position of character c in s from i on, 0 if there is none
RECURSIVE IndexOf(_, _, _)
IndexOf(s, c, i) ==
    IF i > Len(s) THEN 0 ELSE IF s[i] = c THEN i ELSE IndexOf(s, c, i + 1)

NoMatch == [ok |-> FALSE, group |-> <<>>]

\* group 1 of "\s*([^c]+)\s*c" on inner, whose first closing character is
\* at position k: all that precedes it, leading white space left out unless
\* nothing else precedes
GroupBefore(inner, k) ==
    IF k <= 1 THEN NoMatch
    ELSE IF TrimStart(Sub(inner, 1, k - 1)) = <<>>
    THEN [ok |-> TRUE, group |-> <<inner[k - 1]>>]
    ELSE [ok |-> TRUE, group |-> TrimStart(Sub(inner, 1, k - 1))]

MatchInner(inner, close) == GroupBefore(inner, IndexOf(inner, close, 1))

\* rest: the type name after "array" and white space
MatchBracket(rest, open, close) ==
    IF rest # <<>> /\ Head(rest) = open THEN MatchInner(Tail(rest), close) ELSE NoMatch

\* re.match(r"array\s*<\s*([^>]+)\s*>", type_name, flags=re.I), and the same
\* with ( ) and [ ]
ArrayMatch(type_name, open, close) ==
    IF StartsWith(ToLower(type_name), <<"a", "r", "r", "a", "y">>)
    THEN MatchBracket(TrimStart(Sub(type_name, 6, Len(type_name))), open, close)
    ELSE NoMatch

\* the first of the three patterns that matches
FirstMatch(angle, round, square) ==
    IF angle.ok THEN angle ELSE IF round.ok THEN round ELSE square

ArrayMatches(type_name) ==
    FirstMatch(ArrayMatch(type_name, "<", ">"), ArrayMatch(type_name, "(", ")"),
               ArrayMatch(type_name, "[", "]"))

\* a signature entry: name, type, tensor-spec.dtype and items.type (or
\* str(items)) as text, the empty text where the entry has none
SignatureEntry(name, type, dtype, items) ==
    [name |-> name, type |-> type, dtype |-> dtype, items |-> items]

\* the element type that the entry wraps, and whether it wraps one
ElementType(spec, array_match) ==
    IF ToLower(spec.type) = <<"t", "e", "n", "s", "o", "r">> THEN [type |-> spec.dtype, is_array |-> TRUE]
    ELSE IF ToLower(spec.type) = <<"a", "r", "r", "a", "y">> THEN [type |-> spec.items, is_array |-> TRUE]
    ELSE IF array_match.ok THEN [type |-> array_match.group, is_array |-> TRUE]
    ELSE [type |-> spec.type, is_array |-> FALSE]

MapElement(spec, element) ==
    [type |-> _map_mlflow_type(element.type, spec.name, PyNone), is_array |-> element.is_array]

_parse_mlflow_input_type(spec) == MapElement(spec, ElementType(spec, ArrayMatches(spec.type)))

\* the type after the date override of discover_endpoints
DateOverride(name, value, param_type) ==
    IF _is_date_param(name, value) /\ param_type = "string" THEN "date" ELSE param_type

Parameter(name, param_type, is_array) ==
    [name |-> name, type |-> param_type, is_array |-> is_array]

\* one signature entry classified with its example value
ClassifyTyped(name, example_value, parsed) ==
    Parameter(name, DateOverride(name, example_value, parsed.type), parsed.is_array)

ClassifyEntry(spec, example_value) ==
    ClassifyTyped(spec.name, example_value, _parse_mlflow_input_type(spec))

\* the first scalar of the list, looked for in nested lists too
RECURSIVE _infer_array_element_type(_)
_infer_array_element_type(value) ==
    IF value.t # "list" \/ value.items = <<>> THEN "object"
    ELSE IF Head(value.items).t # "list" THEN infer_parameter_type(Head(value.items))
    ELSE IF _infer_array_element_type(Head(value.items)) # "object"
    THEN _infer_array_element_type(Head(value.items))
    ELSE _infer_array_element_type(PyList(Tail(value.items)))

ArrayElementType(element_type) == IF element_type = "object" THEN "string" ELSE element_type

\* one key of the example object classified from its value
ClassifySample(name, value) ==
    IF value.t = "list"
    THEN Parameter(name, DateOverride(name, value, ArrayElementType(_infer_array_element_type(value))),
                   TRUE)
    ELSE Parameter(name, DateOverride(name, value, infer_parameter_type(value)), FALSE)

(***************************************************************************)
(* SchemaInference: discover_endpoints and clean_function_name             *)
(***************************************************************************)
IsAlnum(c) == IsLower(c) \/ IsUpper(c) \/ IsDigit(c)

\* re.match(r'^[a-zA-Z][a-zA-Z0-9]*$', name)
IsCleanName(name) ==
    /\ name # <<>>
    /\ IsLower(name[1]) \/ IsUpper(name[1])
    /\ \A k \in 1..Len(name) : IsAlnum(name[k])

\* the non-empty parts of re.split(r'[^a-zA-Z0-9]+', name) from position i
RECURSIVE SplitParts(_, _, _, _)
SplitParts(s, i, cur, acc) ==
    IF i > Len(s) THEN (IF cur = <<>> THEN acc ELSE Append(acc, cur))
    ELSE IF IsAlnum(s[i]) THEN SplitParts(s, i + 1, Append(cur, s[i]), acc)
    ELSE SplitParts(s, i + 1, <<>>, IF cur = <<>> THEN acc ELSE Append(acc, cur))

\* str.capitalize()
Capitalize(part) == [k \in 1..Len(part) |-> IF k = 1 THEN UpperOf(part[k]) ELSE LowerOf(part[k])]

RECURSIVE CamelCase(_)
CamelCase(parts) ==
    IF parts = <<>> THEN <<>> ELSE Capitalize(Head(parts)) \o CamelCase(Tail(parts))

\* the name that starts with a letter
WithPrefix(camel, prefix) ==
    IF camel = <<>> THEN <<"U", "n", "n", "a", "m", "e", "d">> \o prefix
    ELSE IF IsDigit(camel[1]) THEN prefix \o camel
    ELSE camel

clean_function_name(name, prefix) ==
    IF IsCleanName(name) THEN name
    ELSE WithPrefix(CamelCase(SplitParts(name, 1, <<>>, <<>>)), prefix)

PrefixModel == <<"M", "o", "d", "e", "l">>

\* d.get(key), None when the key is missing
DictGetOrNone(d, key) == IF HasKey(d, key) THEN DictGet(d, key) ELSE PyNone

KeyData == <<"d", "a", "t", "a">>

\* what get_model_signature returned
Signature(signature_inputs, example) ==
    [t |-> "signature", signature_inputs |-> signature_inputs, example |-> example]

\* signature_inputs and example_data after the signature is read
SignatureInputsOf(signature) ==
    IF signature.t = "none" THEN PyNone ELSE signature.signature_inputs

SignatureExampleOf(signature) ==
    IF signature.t = "none" THEN PyNone
    ELSE IF Truthy(signature.example) /\ signature.example.t = "dict"
    THEN DictGetOrNone(signature.example, KeyData)
    ELSE PyNone

\* curl_info.get("data", {}).get("data") is evaluated on the curl payload when
\* there is no signature entry and the payload is truthy; a payload that is
\* not a JSON object has no get and the call raises AttributeError
PayloadRaises(signature_inputs, curl_data) ==
    ~Truthy(signature_inputs) /\ Truthy(curl_data) /\ curl_data.t # "dict"

\* the curl payload replaces both when there is no signature entry
Sources(signature_inputs, example_data, curl_data) ==
    IF ~Truthy(signature_inputs) /\ Truthy(curl_data)
    THEN [signature_inputs |-> PyNone, example_data |-> DictGetOrNone(curl_data, KeyData)]
    ELSE [signature_inputs |-> signature_inputs, example_data |-> example_data]

\* example_data[param_name] when the name is a key of it; the lists of this
\* model hold no string, so a name is never an element of one
ExampleValue(example_data, param_name) ==
    IF Truthy(example_data) /\ example_data.t = "dict" /\ HasKey(example_data, param_name)
    THEN DictGet(example_data, param_name)
    ELSE PyNone

RECURSIVE FromSignature_KeepUnnamed(_, _, _, _)
FromSignature_KeepUnnamed(entries, i, example_data, parameters) ==
    IF i > Len(entries) THEN parameters
    ELSE FromSignature_KeepUnnamed(entries, i + 1, example_data,
                                   Append(parameters,
                                          ClassifyEntry(entries[i], ExampleValue(example_data, entries[i].name))))

\* the loop over the signature entries from entry i on
RECURSIVE FromSignature(_, _, _, _)
FromSignature(entries, i, example_data, parameters) ==
    IF i > Len(entries) THEN parameters
    ELSE IF entries[i].name = <<>> THEN FromSignature(entries, i + 1, example_data, parameters)
    ELSE FromSignature(entries, i + 1, example_data,
                       Append(parameters,
                              ClassifyEntry(entries[i], ExampleValue(example_data, entries[i].name))))

FromExample_Unordered(example_data) ==
    [k \in 1..Len(example_data.items) |->
        ClassifySample(example_data.items[IF cursor % 2 = 0 THEN Len(example_data.items) + 1 - k ELSE k].key,
                       example_data.items[IF cursor % 2 = 0 THEN Len(example_data.items) + 1 - k ELSE k].value)]

\* the loop over the items of the example object
FromExample(example_data) ==
    [k \in 1..Len(example_data.items) |->
        ClassifySample(example_data.items[k].key, example_data.items[k].value)]

\* the parameters kept: those of the signature, else those of the example
Fallback(parameters, example_data) ==
    IF parameters = <<>> /\ example_data.t = "dict" THEN FromExample(example_data)
    ELSE parameters

SignatureParameters(sources) ==
    IF Truthy(sources.signature_inputs)
    THEN FromSignature(sources.signature_inputs.items, 1, sources.example_data, <<>>)
    ELSE <<>>

BuildParameters(sources) == Fallback(SignatureParameters(sources), sources.example_data)

InferParameters(signature, curl_data) ==
    BuildParameters(Sources(SignatureInputsOf(signature), SignatureExampleOf(signature), curl_data))

Skipped == [emitted |-> FALSE, raised |-> FALSE, name |-> <<>>, parameters |-> <<>>]

\* the exception leaves discover_endpoints and main: the run ends
Raised == [emitted |-> FALSE, raised |-> TRUE, name |-> <<>>, parameters |-> <<>>]

\* the endpoint of a model whose curl was parsed, none without parameters
EndpointConfig(name, parameters) ==
    IF parameters = <<>> THEN Skipped
    ELSE [emitted |-> TRUE, raised |-> FALSE,
          name |-> clean_function_name(name, PrefixModel), parameters |-> parameters]

\* one iteration of the loop of discover_endpoints: model is the entry of
\* get_models, fetched what the overview page and the registry returned
DiscoverOne(model, fetched) ==
    IF ~model.has_id THEN Skipped
    ELSE IF fetched.curl # "parsed" THEN Skipped
    ELSE IF PayloadRaises(SignatureInputsOf(fetched.signature), fetched.curl_data) THEN Raised
    ELSE EndpointConfig(model.name, InferParameters(fetched.signature, fetched.curl_data))

(***************************************************************************)
(* Inputs                                                                  *)
(***************************************************************************)
\* longest string argument over StrAlphabet
MaxStrLen == 3

\* longest one-dimensional range (rank-1 array, 1 x N or N x 1 grid)
MaxLen == 3

\* largest grid with more than one row and more than one column
MaxRows == 2
MaxCols == 2

StrAlphabet == {"a", Q, BS}

Strings == UNION {[1..n -> StrAlphabet] : n \in 0..MaxStrLen}

\* strings that parse as a number, a bool or a date
SpecialStrings == {<<"5">>, <<" ", "7", ".", "5">>, <<"t", "r", "u", "e">>, <<"2", "0", "2", "3", "-", "0", "3", "-", "1", "5">>, <<"0">>}

NumValues ==
    {NumCell(0, 0), NumCell(5, 0), NumCell(7, 0), NumCell(75, 1), NumCell(-15, 1), NumCell(45000, 0),
     NumCell(5, 2), NumCell(-1005, 3), NumCell(1200, 0)}

\* calendar days written as ISO strings, and serial numbers of days (45000.5
\* is noon of 2023-03-15)
DateStrings == {<<"2", "0", "2", "3", "-", "0", "3", "-", "1", "5">>, <<"1", "9", "0", "0", "-", "0", "3", "-", "0", "1">>, <<"2", "0", "0", "0", "-", "0", "2", "-", "2", "9">>, <<"1", "9", "9", "9", "-", "1", "2", "-", "3", "1">>}

SerialValues == {NumCell(45000, 0), NumCell(450005, 1), NumCell(61, 0), NumCell(36585, 0), NumCell(36525, 0)}

\* Unix times: 10^9 and 1.7 * 10^9 seconds, 10^12 and 1.7 * 10^12
\* milliseconds; and the largest whole number below 10^9
EpochValues == {NumCell(1, -9), NumCell(17, -8), NumCell(1, -12), NumCell(17, -11), NumCell(999999999, 0)}

\* a string with white space around it that is no number and no date
PaddedStrings == {<<" ", "a", " ">>}

ScalarValues ==
    {Empty, ErrorSentinel, BoolCell(TRUE), BoolCell(FALSE)}
        \cup NumValues \cup SerialValues \cup EpochValues
        \cup {StrCell(s) : s \in Strings \cup SpecialStrings \cup DateStrings \cup PaddedStrings}

\* the cells of the ranges passed as arguments
ArrayCellValues == {Empty, ErrorSentinel, NumCell(5, 0), NumCell(7, 0), StrCell(<<",", Q>>)}

GridShapes ==
    {rc \in (1..(MaxLen + MaxRows)) \X (1..(MaxLen + MaxCols)) :
        \/ rc[1] = 1 /\ rc[2] <= MaxLen
        \/ rc[2] = 1 /\ rc[1] <= MaxLen
        \/ rc[1] \in 2..MaxRows /\ rc[2] \in 2..MaxCols}

ArrayValues ==
    UNION {{RowCell(cs) : cs \in [1..n -> ArrayCellValues]} : n \in 1..MaxLen}
        \cup UNION {{GridCell(g) : g \in [1..rc[1] -> [1..rc[2] -> ArrayCellValues]]} : rc \in GridShapes}

\* references to a single cell (GetValue gives the cell) or to a range (a grid)
RefValues ==
    {RefCell(TRUE, v) : v \in {Empty, ErrorSentinel, NumCell(5, 0),
                               GridCell(<<<<NumCell(5, 0), Empty>>>>)}}
        \cup {RefCell(FALSE, Empty)}

ArgValues == ScalarValues \cup ArrayValues \cup RefValues

\* most parameters of an endpoint
MaxParams == 2

\* parameter names: JSON keys that are also C# parameter names
ParamNames == {<<"x">>, <<"r", "a", "t", "e">>, <<"n", "1">>}

\* parameter types and array flags as discover_endpoints emits them
ParamShapes ==
    {<<"double", FALSE>>, <<"string", FALSE>>, <<"object", FALSE>>,
     <<"date", FALSE>>, <<"bool", FALSE>>, <<"double", TRUE>>}

ParamSpecs == {[name |-> n, type |-> ts[1], is_array |-> ts[2]] : n \in ParamNames, ts \in ParamShapes}

\* parameter lists: one to MaxParams parameters with distinct names
ParamLists ==
    UNION {{ps \in [1..n -> ParamSpecs] : \A i, j \in 1..n : i # j => ps[i].name # ps[j].name}
            : n \in 1..MaxParams}

PayloadArgs == {NumCell(5, 0), StrCell(<<"a", Q>>), RowCell(<<NumCell(5, 0), Empty, NumCell(7, 0)>>)}

\* fields that precede the top-level result key; first is the value that
\* follows an earlier occurrence of "result": inside them (<<>> if none)
Prefix(text, first) == [text |-> text, first |-> first]

Prefixes ==
    {Prefix(<<>>, <<>>),
     Prefix(<<"\"", "o", "t", "h", "e", "r", "\"", ":", " ", "[", "1", ",", "\"", "a", "}", "\"", ",", "2", "]", ",", " ">>, <<>>),
     Prefix(<<"\"", "s", "\"", ":", " ", "\"", "x", "]", "\\", "\"", "{", "\"", ",", " ">>, <<>>),
     Prefix(<<"\"", "a", "\"", ":", " ", "{", "\"", "b", "\"", ":", " ", "[", "1", "]", "}", ",", " ">>, <<>>),
     Prefix(<<"\"", "r", "e", "s", "u", "l", "t", "_", "i", "d", "\"", ":", " ", "7", ",", " ", "\"", "r", "e", "s", "u", "l", "t", "s", "\"", ":", " ", "[", "0", "]", ",", " ">>, <<>>),
     Prefix(<<"\"", "m", "e", "t", "a", "\"", ":", " ", "{", "\"", "r", "e", "s", "u", "l", "t", "\"", ":", " ", "1", "}", ",", " ">>, <<"1">>),
     Prefix(<<"\"", "x", "\\", "\"", "r", "e", "s", "u", "l", "t", "\"", ":", " ", "3", ",", " ">>, <<"3">>)}

\* well-formed result values
BracketValues ==
    {<<"{", "\"", "x", "\"", ":", " ", "[", "1", ",", "2", ",", "[", "3", ",", "4", "]", "]", "}">>, <<"[", "1", ",", "2", ",", "[", "3", ",", "4", "]", "]">>, <<"[", "[", "1", ",", "2", "]", ",", "[", "3", "]", "]">>, <<"[", "\"", "a", "]", "\"", ",", "\"", "b", "\\", "\"", "]", "\"", "]">>, <<"{", "\"", "k", "\"", ":", " ", "\"", "}", "\\", "\\", "\"", "}">>, <<"[", "]">>}

StringValues == {<<"\"", "o", "k", "\"">>, <<"\"", "a", "\\", "\"", "b", "]", ",", "\"">>, <<"\"", "\\", "\\", "\"">>, <<"\"", "\"">>}

PrimitiveValues == {<<"4", "2">>, <<"-", "7", ".", "5">>, <<"t", "r", "u", "e">>, <<"n", "u", "l", "l">>}

ResultValues == BracketValues \cup StringValues \cup PrimitiveValues

Gaps1 == {<<>>, <<" ">>}
Gaps2 == {<<>>, <<" ">>, <<"\n", " ">>}

Tails == {<<"}">>, <<" ", "}">>, <<",", " ", "\"", "z", "\"", ":", " ", "[", "9", "]", "}">>, <<>>}

\* a body with a top-level result key whose value is val cut after cut
\* characters (cut = Len(val): the whole value, followed by tail)
KeyedBody(pre, gap1, gap2, val, cut, tail) ==
    [json |-> <<"{">> \o pre.text \o ResultKey \o gap1 \o <<":">> \o gap2
                \o Sub(val, 1, cut) \o tail,
     keyed |-> TRUE, pre |-> pre, val |-> val, cut |-> cut, tail |-> tail]

UnkeyedBody(text) ==
    [json |-> text, keyed |-> FALSE, pre |-> Prefix(<<>>, <<>>), val |-> <<>>, cut |-> 0, tail |-> <<>>]

ResponseBodies ==
    {KeyedBody(pre, g1, g2, val, Len(val), tail) :
        pre \in Prefixes, g1 \in Gaps1, g2 \in Gaps2, val \in ResultValues, tail \in Tails}
    \cup UNION {{KeyedBody(pre, <<>>, g2, val, cut, <<>>) : cut \in 0..(Len(val) - 1)} :
        <<pre, g2, val>> \in Prefixes \X Gaps2 \X (BracketValues \cup StringValues)}
    \cup {UnkeyedBody(t) : t \in {<<>>, <<"{", "\"", "a", "\"", ":", " ", "1", "}">>, <<"{", "\"", "r", "e", "s", "u", "l", "t", "s", "\"", ":", " ", "[", "1", "]", "}">>, <<"{", "\"", "r", "e", "s", "u", "l", "t", "\"", " ", "5", "}">>,
                                  <<"{", "r", "e", "s", "u", "l", "t", ":", " ", "5", "}">>, <<"{", "\"", "R", "e", "s", "u", "l", "t", "\"", ":", " ", "[", "1", ",", "2", "]", "}">>, <<"{", "\"", "e", "r", "r", "o", "r", "\"", ":", " ", "\"", "n", "o", " ", "\\", "\"", "r", "e", "s", "u", "l", "t", "\\", "\"", "\"", "}">>}}

\* most rows of a nested result and most elements of a row
MaxShapeRows == 2
MaxShapeCols == 2

\* a JSON scalar as it is written in a response, with the value that
\* ParseSingleValue gives for it
Element(text, value) == [text |-> text, value |-> value]

ShapeElements ==
    {Element(<<"1">>, NumCell(1, 0)), Element(<<"2">>, NumCell(2, 0)),
     Element(<<"3">>, NumCell(3, 0)), Element(<<"4", "2">>, NumCell(42, 0)),
     Element(<<"-", "7", ".", "5">>, NumCell(-75, 1)),
     Element(<<Q, "a", Q>>, StrCell(<<"a">>))}

\* string results whose content has quotes of its own, an empty string, a
\* padded string and a literal: the text and the content inside its quotes
QuotedElements ==
    {Element(<<"\"", "s", "a", "y", " ", "\\", "\"", "h", "i", "\\", "\"", "\"">>, StrCell(<<"s", "a", "y", " ", "\\", "\"", "h", "i", "\\", "\"">>)), Element(<<"\"", "\\", "\"", "a", "\\", "\"", "\"">>, StrCell(<<"\\", "\"", "a", "\\", "\"">>)),
     Element(<<"\"", "\"">>, StrCell(<<>>)), Element(<<" ", "\"", "a", "\"", " ">>, StrCell(<<"a">>)), Element(<<"t", "r", "u", "e">>, StrCell(<<"t", "r", "u", "e">>))}

ShapeRows == UNION {[1..n -> ShapeElements] : n \in 0..MaxShapeCols}

ElementSeparators == {<<",">>, <<",", " ">>}

RECURSIVE Joined(_, _)
Joined(parts, sep) ==
    IF parts = <<>> THEN <<>>
    ELSE IF Len(parts) = 1 THEN parts[1]
    ELSE parts[1] \o sep \o Joined(Tail(parts), sep)

ArrayText(row, sep) == <<"[">> \o Joined([k \in 1..Len(row) |-> row[k].text], sep) \o <<"]">>

\* a fragment as TryExtractResultValue hands it over, with the rows and
\* values it was written from
NestedFragment(rows, sep) ==
    [frag |-> <<"[">> \o Joined([r \in 1..Len(rows) |-> ArrayText(rows[r], sep)], sep) \o <<"]">>,
     form |-> "nested",
     rows |-> [r \in 1..Len(rows) |-> [k \in 1..Len(rows[r]) |-> rows[r][k].value]]]

FlatFragment(row, sep) ==
    [frag |-> ArrayText(row, sep), form |-> "flat",
     rows |-> <<[k \in 1..Len(row) |-> row[k].value]>>]

ScalarFragment(el) == [frag |-> el.text, form |-> "scalar", rows |-> <<<<el.value>>>>]

Fragments ==
    UNION {{NestedFragment(rows, sep) : rows \in [1..n -> ShapeRows], sep \in ElementSeparators}
            : n \in 1..MaxShapeRows}
    \cup {FlatFragment(row, sep) : row \in ShapeRows, sep \in ElementSeparators}
    \cup {ScalarFragment(el) : el \in ShapeElements \cup QuotedElements}

\* field names of signature entries and example objects
FieldNames == {<<"x">>, <<"r", "a", "t", "e">>, <<"s", "t", "a", "r", "t", "D", "a", "t", "e">>, <<"u", "p", "d", "a", "t", "e">>, <<"D", "O", "B">>, <<"b", "i", "r", "t", "h", "_", "d", "t">>}

\* the declared types of the mapping table
BaseTypeNames == BoolTypes \cup IntegerTypes \cup FloatTypes \cup DateTypes \cup StringTypes

\* other spellings, wrappers, a type the table does not hold, and no type
OtherTypeNames ==
    {<<"D", "o", "u", "b", "l", "e">>, <<"S", "T", "R", "I", "N", "G">>, <<"B", "o", "o", "l", "e", "a", "n">>, <<"a", "r", "r", "a", "y", "<", "d", "o", "u", "b", "l", "e", ">">>, <<"A", "r", "r", "a", "y", "(", "s", "t", "r", "i", "n", "g", ")">>, <<"a", "r", "r", "a", "y", "[", " ", "l", "o", "n", "g", " ", "]">>,
     <<"a", "r", "r", "a", "y", "<", "a", "r", "r", "a", "y", "<", "d", "o", "u", "b", "l", "e", ">", ">">>, <<"b", "i", "n", "a", "r", "y">>, <<>>}

Samples ==
    {PyNone, PyBool(TRUE), PyInt(5), PyFloat(15, 1), PyStr(<<"a", "b", "c">>), PyStr(<<"2", "0", "2", "4", "-", "0", "1", "-", "1", "5">>),
     PyStr(<<"2", "0", "2", "4", "/", "0", "1", "/", "1", "5", " ", "1", "0", ":", "0", "0">>), PyList(<<PyInt(1)>>)}

ClassifyEntries ==
    {SignatureEntry(n, t, <<>>, <<>>) : n \in FieldNames, t \in BaseTypeNames \cup OtherTypeNames}
    \cup {SignatureEntry(n, <<"t", "e", "n", "s", "o", "r">>, d, <<>>) : n \in FieldNames, d \in {<<"f", "l", "o", "a", "t", "6", "4">>, <<"s", "t", "r">>, <<>>}}
    \cup {SignatureEntry(n, <<"a", "r", "r", "a", "y">>, <<>>, i) : n \in FieldNames, i \in {<<"i", "n", "t", "e", "g", "e", "r">>, <<"s", "t", "r", "i", "n", "g">>, <<>>}}

\* values of a key of the example object: scalars, and lists that are
\* empty, flat, nested, and that start with a null
ExampleSamples ==
    {PyNone, PyBool(TRUE), PyInt(5), PyFloat(15, 1), PyStr(<<"a", "b", "c">>), PyStr(<<"2", "0", "2", "4", "-", "0", "1", "-", "1", "5">>),
     PyList(<<>>), PyList(<<PyFloat(15, 1)>>), PyList(<<PyBool(TRUE), PyInt(1)>>),
     PyList(<<PyStr(<<"a">>), PyStr(<<"b">>)>>),
     PyList(<<PyList(<<>>), PyList(<<PyFloat(15, 1)>>)>>),
     PyList(<<PyList(<<PyInt(1), PyInt(2)>>), PyList(<<PyInt(3)>>)>>),
     PyList(<<PyList(<<>>)>>),
     PyList(<<PyNone, PyInt(1)>>),
     PyList(<<PyList(<<PyNone>>), PyList(<<PyInt(1)>>)>>)}

\* most models that get_models returns
MaxModels == 2

ModelNames == {<<"h", "e", "d", "g", "i", "n", "g", "-", "m", "o", "d", "e", "l">>, <<"h", "e", "d", "g", "i", "n", "g", "_", "m", "o", "d", "e", "l">>, <<"H", "e", "d", "g", "i", "n", "g", "M", "o", "d", "e", "l">>, <<"9", "l", "i", "v", "e", "s">>}

ModelEntries ==
    {[name |-> n, has_id |-> TRUE] : n \in ModelNames} \cup {[name |-> <<"-", "-">>, has_id |-> FALSE]}

\* the models of a project: pairwise distinct names
ModelLists ==
    UNION {{ms \in [1..n -> ModelEntries] : \A i, j \in 1..n : i # j => ms[i].name # ms[j].name}
            : n \in 0..MaxModels}

Item(key, value) == [key |-> key, value |-> value]

\* example objects: none, empty, two named fields, a field with an empty
\* name, and rows of a data frame; a curl payload that is a JSON array
ExampleEmpty == PyDict(<<>>)
ExampleFields == PyDict(<<Item(<<"x">>, PyInt(5)), Item(<<"s", "t", "a", "r", "t", "D", "a", "t", "e">>, PyStr(<<"2", "0", "2", "4", "-", "0", "1", "-", "1", "5">>))>>)
ExampleUnnamed == PyDict(<<Item(<<>>, PyInt(1))>>)
ExampleRows == PyList(<<PyList(<<PyInt(1), PyInt(2)>>)>>)
PayloadArray == PyList(<<PyInt(1), PyInt(2)>>)

WithData(example) == PyDict(<<Item(KeyData, example)>>)

CurlPayloads == {PyNone, WithData(ExampleFields), WithData(ExampleRows), PayloadArray}

\* signature entries as _load_signature_inputs returns them: a non-empty list
EntryLists ==
    {PyList(<<SignatureEntry(<<"x">>, <<"d", "o", "u", "b", "l", "e">>, <<>>, <<>>), SignatureEntry(<<"s", "t", "a", "r", "t", "D", "a", "t", "e">>, <<"s", "t", "r", "i", "n", "g">>, <<>>, <<>>)>>),
     PyList(<<SignatureEntry(<<"x">>, <<"d", "o", "u", "b", "l", "e">>, <<>>, <<>>), SignatureEntry(<<"x">>, <<"s", "t", "r", "i", "n", "g">>, <<>>, <<>>)>>),
     PyList(<<SignatureEntry(<<>>, <<"d", "o", "u", "b", "l", "e">>, <<>>, <<>>)>>),
     PyList(<<SignatureEntry(<<>>, <<"d", "o", "u", "b", "l", "e">>, <<>>, <<>>), SignatureEntry(<<"x">>, <<"d", "o", "u", "b", "l", "e">>, <<>>, <<>>)>>)}

\* get_model_signature returns None unless it found entries or an example
Signatures ==
    {PyNone}
    \cup {Signature(si, ex) :
            si \in EntryLists,
            ex \in {PyNone, WithData(ExampleFields), WithData(ExampleUnnamed), WithData(ExampleEmpty)}}
    \cup {Signature(PyNone, ex) :
            ex \in {WithData(ExampleFields), WithData(ExampleUnnamed), WithData(ExampleEmpty)}}

\* what the overview page and the registry give for one model
Fetched ==
    {[curl |-> c, curl_data |-> PyNone, signature |-> PyNone] : c \in {"none", "unparsed"}}
    \cup {[curl |-> "parsed", curl_data |-> cd, signature |-> sg] :
            cd \in CurlPayloads, sg \in Signatures}

\* the parameters of the function that is invoked
InvokeParams == <<[name |-> <<"x">>, type |-> "double", is_array |-> FALSE]>>

\* response bodies of the endpoint: results of each shape, a body without
\* result, a body cut in its value, an empty body
InvokeBodies == {<<"{", "\"", "r", "e", "s", "u", "l", "t", "\"", ":", " ", "[", "[", "1", ",", "2", "]", ",", "[", "3", "]", "]", "}">>, <<"{", "\"", "r", "e", "s", "u", "l", "t", "\"", ":", " ", "[", "1", ",", "2", "]", "}">>, <<"{", "\"", "r", "e", "s", "u", "l", "t", "\"", ":", " ", "[", "4", "2", "]", "}">>, <<"{", "\"", "r", "e", "s", "u", "l", "t", "\"", ":", " ", "4", "2", "}">>, <<"{", "\"", "r", "e", "s", "u", "l", "t", "\"", ":", " ", "\"", "o", "k", "\"", "}">>, <<"{", "\"", "e", "r", "r", "o", "r", "\"", ":", " ", "\"", "x", "\"", "}">>, <<"{", "\"", "r", "e", "s", "u", "l", "t", "\"", ":", " ", "[", "1", ",">>, <<>>}

\* bodies of an HTTP error response
ErrorBodies == {<<"{", "\"", "m", "e", "s", "s", "a", "g", "e", "\"", ":", " ", "\"", "b", "a", "d", " ", "i", "n", "p", "u", "t", "\"", "}">>, <<>>}

ExceptionMessages == {<<"U", "n", "a", "b", "l", "e", " ", "t", "o", " ", "c", "o", "n", "n", "e", "c", "t", " ", "t", "o", " ", "t", "h", "e", " ", "r", "e", "m", "o", "t", "e", " ", "s", "e", "r", "v", "e", "r">>, <<"T", "h", "e", " ", "o", "p", "e", "r", "a", "t", "i", "o", "n", " ", "h", "a", "s", " ", "t", "i", "m", "e", "d", " ", "o", "u", "t">>}

\* what the request does
UploadOutcomes ==
    {UploadReturns(json) : json \in InvokeBodies}
    \cup {UploadThrowsWithResponse(body, readable) : body \in ErrorBodies, readable \in BOOLEAN}
    \cup {UploadThrowsWebException(message) : message \in ExceptionMessages}
    \cup {TryThrows(message) : message \in ExceptionMessages}

(***************************************************************************)
(* State machine: one invocation or one generation run at a time           *)
(***************************************************************************)
NoCall == [op |-> "none"]

(***************************************************************************)
(* create_addin_endpoint.py: the Model API that hosts the add-in is         *)
(* created when the project has none of that name                          *)
(***************************************************************************)
\* most runs of the script against one project
MaxRuns == 3

\* DEFAULT_NAME, the name every run asks for
DEFAULT_NAME == <<"E", "x", "c", "e", "l", "W", "e", "b", "A", "d", "d", "i", "n", "H", "o", "s", "t", "i", "n", "g">>

\* a Model API of the project; by is the run whose POST created it, 0 for
\* one that was there before the runs
ModelApi(name, isArchived, by) == [name |-> name, isArchived |-> isArchived, by |-> by]

\* a run: where main is, and what find_model_api gave it
NotStarted == [at |-> "start", existing |-> FALSE]

\* find_model_api: whether an item has the name and is not archived
find_model_api(items, name) ==
    \E k \in 1..Len(items) : items[k].name = name /\ ~items[k].isArchived

\* the server's answer to POST /api/modelServing/v1/modelApis
Post(items, name, r) == Append(items, ModelApi(name, FALSE, r))

(***************************************************************************)
(* Generated functions called at the same time (IsThreadSafe = true): the  *)
(* generated class has no static field; a call shares with the others the *)
(* process-wide security protocol only                                     *)
(***************************************************************************)
\* most calls in flight at the same time
MaxCalls == 2

\* SecurityProtocolType.Tls12 | SecurityProtocolType.Tls13
Tls12OrTls13 == "Tls12 | Tls13"

\* a thread outside every generated function
Ready == [at |-> "ready"]

\* the locals of a call after each statement of the generated method
Entered(params, arg) == [at |-> "entered", params |-> params, arg |-> arg]

PayloadBuilt(local) == [at |-> "built", jsonPayload |-> JsonPayload(local.params, <<local.arg>>)] @@ local

\* the request body that thread t hands to client.UploadString
Uploading_LastBuilt(all, t) ==
    all[CHOOSE u \in DOMAIN all :
            /\ all[u].at = "built"
            /\ \A v \in DOMAIN all : all[v].at = "built" => v <= u].jsonPayload

Uploading(all, t) == all[t].jsonPayload

Uploaded(local, body, outcome) == [at |-> "uploaded", body |-> body, outcome |-> outcome] @@ local

Finished(local) == [at |-> "returned", result |-> GeneratedFunction(local.outcome)] @@ local

\* nothing is being computed
SheetIdle ==
    /\ pc = "idle"
    /\ call = NoCall
    /\ ret = NoCall
    /\ models = <<>>
    /\ cursor = 0
    /\ endpoints = <<>>

\* no run of create_addin_endpoint.py has started and the project is empty
HostingIdle ==
    /\ apis = <<>>
    /\ runs = [r \in 1..MaxRuns |-> NotStarted]

\* no thread is inside a generated function
CallsIdle ==
    /\ securityProtocol = "SystemDefault"
    /\ threads = [t \in 1..MaxCalls |-> Ready]

Init == SheetIdle /\ HostingIdle /\ CallsIdle

\* SerializeParamValue applied to one argument of a call
Serialize ==
    /\ pc = "idle"
    /\ \E value \in ArgValues, kind \in Kinds, allowArray \in BOOLEAN :
        /\ call' = [op |-> "serialize", value |-> value, kind |-> kind, allowArray |-> allowArray]
        /\ ret' = [text |-> SerializeParamValue(value, kind, allowArray)]
    /\ pc' = "serialized"
    /\ UNCHANGED discovery
    /\ UNCHANGED <<hosting, calls>>

\* the jsonPayload of one call of a generated function
BuildPayload ==
    /\ pc = "idle"
    /\ \E params \in ParamLists :
        \E args \in [1..Len(params) -> PayloadArgs] :
            /\ call' = [op |-> "payload", params |-> params, args |-> args]
            /\ ret' = [text |-> JsonPayload(params, args)]
    /\ pc' = "built"
    /\ UNCHANGED discovery
    /\ UNCHANGED <<hosting, calls>>

\* TryExtractResultValue applied to a response body
Extract ==
    /\ pc = "idle"
    /\ \E body \in ResponseBodies :
        /\ call' = [op |-> "extract"] @@ body
        /\ ret' = TryExtractResultValue(body.json)
    /\ pc' = "extracted"
    /\ UNCHANGED discovery
    /\ UNCHANGED <<hosting, calls>>

\* the dispatch of ParseResult applied to an extracted fragment
Shape ==
    /\ pc = "idle"
    /\ \E fragment \in Fragments :
        /\ call' = [op |-> "shape"] @@ fragment
        /\ ret' = [value |-> ShapeResult(fragment.frag)]
    /\ pc' = "shaped"
    /\ UNCHANGED discovery
    /\ UNCHANGED <<hosting, calls>>

\* one call of a generated function: the payload, the request, the result
Invoke ==
    /\ pc = "idle"
    /\ \E arg \in PayloadArgs, outcome \in UploadOutcomes :
        /\ call' = [op |-> "invoke", jsonPayload |-> JsonPayload(InvokeParams, <<arg>>),
                    outcome |-> outcome]
        /\ ret' = GeneratedFunction(outcome)
    /\ pc' = "invoked"
    /\ UNCHANGED discovery
    /\ UNCHANGED <<hosting, calls>>

\* one signature entry classified: _parse_mlflow_input_type and the date
\* override of discover_endpoints
Classify ==
    /\ pc = "idle"
    /\ \E spec \in ClassifyEntries, example_value \in Samples :
        /\ call' = [op |-> "classify", spec |-> spec, example_value |-> example_value]
        /\ ret' = ClassifyEntry(spec, example_value)
    /\ pc' = "classified"
    /\ UNCHANGED discovery
    /\ UNCHANGED <<hosting, calls>>

\* one key of the example object classified: the body of the fallback loop
\* of discover_endpoints
ClassifyExample ==
    /\ pc = "idle"
    /\ \E param_name \in FieldNames, param_value \in ExampleSamples :
        /\ call' = [op |-> "sample", param_name |-> param_name, param_value |-> param_value]
        /\ ret' = ClassifySample(param_name, param_value)
    /\ pc' = "sampled"
    /\ UNCHANGED discovery
    /\ UNCHANGED <<hosting, calls>>

\* discover_endpoints starts: get_models returns the models of the project
GetModels ==
    /\ pc = "idle"
    /\ \E ms \in ModelLists : models' = ms
    /\ cursor' = 1
    /\ endpoints' = <<>>
    /\ call' = [op |-> "get_models"]
    /\ ret' = NoCall
    /\ pc' = "discovering"
    /\ UNCHANGED <<hosting, calls>>

\* one iteration of the loop over the models; an exception ends the run
DiscoverModel ==
    /\ pc = "discovering"
    /\ cursor <= Len(models)
    /\ \E fetched \in Fetched :
        /\ call' = [op |-> "discover", model |-> models[cursor]] @@ fetched
        /\ ret' = DiscoverOne(models[cursor], fetched)
    /\ endpoints' = IF ret'.emitted
                    THEN Append(endpoints, [name |-> ret'.name, parameters |-> ret'.parameters])
                    ELSE endpoints
    /\ cursor' = IF ret'.raised THEN cursor ELSE cursor + 1
    /\ pc' = IF ret'.raised THEN "raised" ELSE pc
    /\ UNCHANGED models
    /\ UNCHANGED <<hosting, calls>>

\* main after discover_endpoints: the build starts only with an endpoint
FinishDiscovery ==
    /\ pc = "discovering"
    /\ cursor > Len(models)
    /\ pc' = IF endpoints = <<>> THEN "no_endpoints" ELSE "building"
    /\ call' = [op |-> "main"]
    /\ ret' = NoCall
    /\ UNCHANGED discovery
    /\ UNCHANGED <<hosting, calls>>

(***************************************************************************)
(* The ParseResult that src/create_udfs.py generates: the result is cut    *)
(* out of the response by one regular expression; Parse2DArray,            *)
(* Parse1DArray and ParseSingleValue are the same text as in run_all.py    *)
(***************************************************************************)
ErrNoResultField == <<"E", "r", "r", "o", "r", ":", " ", "N", "o", " ", "r", "e", "s", "u", "l", "t", " ", "f", "i", "e", "l", "d", " ", "i", "n", " ", "r", "e", "s", "p", "o", "n", "s", "e">>

\* the end of the run of [^,}] characters that starts at s[i]: the position
\* of the first character after it
RECURSIVE PlainRunEnd(_, _)
PlainRunEnd(s, i) ==
    IF i <= Len(s) /\ s[i] \notin {",", "}"} THEN PlainRunEnd(s, i + 1) ELSE i

\* group 1 of (\[[\s\S]*?\]|[^,}]+) after the white space that follows the
\* colon: from is the position after the colon, k the position after the
\* white space.  The bracket alternative is lazy and ends at the first "]";
\* when neither alternative matches at k, the white space gives back its
\* last character to the second alternative.
ResultGroup(json, from, k) ==
    IF k <= Len(json) /\ json[k] = "[" /\ IndexOf(json, "]", k + 1) # 0
    THEN Found(Sub(json, k, IndexOf(json, "]", k + 1)))
    ELSE IF k <= Len(json) /\ json[k] \notin {",", "}"}
    THEN Found(Sub(json, k, PlainRunEnd(json, k) - 1))
    ELSE IF k > from THEN Found(Sub(json, k - 1, k - 1))
    ELSE Failed(ErrNoResultField)

\* the match of the whole expression with the key at position i
ResultMatchAt(json, i) ==
    LET from == SkipWhiteSpace(json, i + Len(ResultKey)) + 1
    IN  ResultGroup(json, from, SkipWhiteSpace(json, from))

\* Regex.Match(json, "result"\s*:\s*(\[[\s\S]*?\]|[^,}]+)): the leftmost match
ResultMatch(json) ==
    LET hits == {i \in KeyMatches(json) : ResultMatchAt(json, i).found}
    IN  IF hits = {} THEN Failed(ErrNoResultField) ELSE ResultMatchAt(json, Min(hits))

\* resultMatch.Groups[1].Value.Trim()
ResultValueOf(resultMatch) ==
    IF resultMatch.found THEN Found(Trim(resultMatch.value)) ELSE resultMatch

\* ParseResult of create_udfs.py
RegexParseResult(json) == ShapeExtracted(ResultValueOf(ResultMatch(json)))

\* results of the older generator's functions: rows of a number and a string
RegexElements == {Element(<<"1">>, NumCell(1, 0)), Element(<<Q, "a", Q>>, StrCell(<<"a">>))}

RegexRows == UNION {[1..n -> RegexElements] : n \in 0..MaxShapeCols}

RegexFragments ==
    UNION {{NestedFragment(rows, <<",">>) : rows \in [1..n -> RegexRows]} : n \in 1..MaxShapeRows}
    \cup {FlatFragment(row, <<",">>) : row \in RegexRows}
    \cup {ScalarFragment(el) : el \in RegexElements}

\* what follows the result in the response
RegexTails == {<<"}">>, <<",", " ", "\"", "n", "\"", ":", " ", "1", "}">>}

\* one response read by the ParseResult of create_udfs.py
ParseRegex ==
    /\ pc = "idle"
    /\ \E fragment \in RegexFragments, gap \in Gaps1, tail \in RegexTails :
        LET json == <<"{">> \o ResultKey \o <<":">> \o gap \o fragment.frag \o tail
        IN  /\ call' = [op |-> "regex", json |-> json] @@ fragment
            /\ ret' = [extracted |-> ResultValueOf(ResultMatch(json)),
                       value |-> RegexParseResult(json)]
    /\ pc' = "parsed"
    /\ UNCHANGED discovery
    /\ UNCHANGED <<hosting, calls>>

(***************************************************************************)
(* The help link of a generated function                                   *)
(***************************************************************************)
HexChars == {"a", "b", "c", "d", "e", "f"} \cup DigitSet

\* the end of the run of [a-f0-9] characters that starts at s[i]: the
\* position of the first character after it
RECURSIVE HexRunEnd(_, _)
HexRunEnd(s, i) == IF i <= Len(s) /\ s[i] \in HexChars THEN HexRunEnd(s, i + 1) ELSE i

\* whether r'/models/([a-f0-9]+)/' matches at position i of s
ModelsMatchAt(s, i) ==
    /\ i + 7 <= Len(s)
    /\ Sub(s, i, i + 7) = <<"/", "m", "o", "d", "e", "l", "s", "/">>
    /\ HexRunEnd(s, i + 8) > i + 8
    /\ HexRunEnd(s, i + 8) <= Len(s)
    /\ s[HexRunEnd(s, i + 8)] = "/"

\* re.search(r'/models/([a-f0-9]+)/', endpoint_url): the leftmost match
ModelsSearch(endpoint_url) ==
    LET hits == {i \in 1..Len(endpoint_url) : ModelsMatchAt(endpoint_url, i)}
    IN  IF hits = {} THEN [matched |-> FALSE]
        ELSE LET i == CHOOSE h \in hits : \A g \in hits : h <= g
             IN  [matched |-> TRUE, group1 |-> Sub(endpoint_url, i + 8, HexRunEnd(endpoint_url, i + 8) - 1)]

\* str.rstrip(chars): every trailing character that is in the set is removed
RECURSIVE RStrip(_, _)
RStrip(s, chars) ==
    IF s # <<>> /\ s[Len(s)] \in chars THEN RStrip(Sub(s, 1, Len(s) - 1), chars) ELSE s

OverviewQuery == <<"/", "o", "v", "e", "r", "v", "i", "e", "w", "?", "o", "w", "n", "e", "r", "N", "a", "m", "e", "=", "n", "i", "c", "k", "_", "g", "o", "b", "l", "e", "&", "p", "r", "o", "j", "e", "c", "t", "N", "a", "m", "e", "=", "E", "n", "d", "p", "o", "i", "n", "t", "U", "D", "F", "s">>

extract_help_topic_url(endpoint_url, domino_base_url) ==
    LET match == ModelsSearch(endpoint_url)
        base_url == RStrip(RStrip(domino_base_url, {":", "4", "3"}), {"/"})
    IN  IF ~match.matched THEN <<>>
        ELSE base_url \o <<"/", "m", "o", "d", "e", "l", "s", "/">> \o match.group1 \o OverviewQuery

\* endpoint URLs: with a model id, with an id that is not hexadecimal, without
\* the models segment, with an empty id, and with the id at the end
EndpointUrls ==
    {<<"h", "t", "t", "p", "s", ":", "/", "/", "h", "/", "m", "o", "d", "e", "l", "s", "/", "a", "b", "c", "1", "2", "3", "/", "l", "a", "t", "e", "s", "t", "/", "m", "o", "d", "e", "l">>, <<"h", "t", "t", "p", "s", ":", "/", "/", "h", "/", "m", "o", "d", "e", "l", "s", "/", "X", "Y", "Z", "/", "l", "a", "t", "e", "s", "t", "/", "m", "o", "d", "e", "l">>,
     <<"h", "t", "t", "p", "s", ":", "/", "/", "h", "/", "a", "p", "i", "/", "r", "u", "n">>, <<"h", "t", "t", "p", "s", ":", "/", "/", "h", "/", "m", "o", "d", "e", "l", "s", "/", "/", "l", "a", "t", "e", "s", "t">>, <<"h", "t", "t", "p", "s", ":", "/", "/", "h", "/", "m", "o", "d", "e", "l", "s", "/", "0", "f">>,
     <<"h", "t", "t", "p", "s", ":", "/", "/", "h", ":", "4", "4", "3", "/", "m", "o", "d", "e", "l", "s", "/", "9", "d", "/", "a", "p", "i">>}

\* values of DOMINO_URL: with and without the port 443, with a trailing
\* slash, with another port, and with a path
BaseUrls ==
    {<<"h", "t", "t", "p", "s", ":", "/", "/", "h", ":", "4", "4", "3">>, <<"h", "t", "t", "p", "s", ":", "/", "/", "h">>, <<"h", "t", "t", "p", "s", ":", "/", "/", "h", "/">>, <<"h", "t", "t", "p", "s", ":", "/", "/", "h", ":", "4", "4", "3", "/">>, <<"h", "t", "t", "p", "s", ":", "/", "/", "h", ":", "8", "4", "4", "3">>,
     <<"h", "t", "t", "p", "s", ":", "/", "/", "h", ":", "8", "0", "8", "0">>, <<"h", "t", "t", "p", "s", ":", "/", "/", "h", "/", "v", "3">>, <<"h", "t", "t", "p", "s", ":", "/", "/", "h", "4">>}

\* the HelpTopic of one generated function
HelpTopic ==
    /\ pc = "idle"
    /\ \E endpoint_url \in EndpointUrls, domino_base_url \in BaseUrls :
        /\ call' = [op |-> "help", endpoint_url |-> endpoint_url, domino_base_url |-> domino_base_url]
        /\ ret' = [help_topic_url |-> extract_help_topic_url(endpoint_url, domino_base_url)]
    /\ pc' = "linked"
    /\ UNCHANGED discovery
    /\ UNCHANGED <<hosting, calls>>

\* the result is handed to the caller and discarded; a generation run ends
Return ==
    /\ pc \notin {"idle", "discovering"}
    /\ pc' = "idle"
    /\ call' = NoCall
    /\ ret' = NoCall
    /\ models' = <<>>
    /\ cursor' = 0
    /\ endpoints' = <<>>
    /\ UNCHANGED <<hosting, calls>>

\* what the project holds before the runs: nothing, a Model API of the
\* name, an archived one of the name, one whose name only starts with it
ProjectStates ==
    {<<>>, <<ModelApi(DEFAULT_NAME, FALSE, 0)>>, <<ModelApi(DEFAULT_NAME, TRUE, 0)>>,
     <<ModelApi(DEFAULT_NAME \o <<"2">>, FALSE, 0)>>}

InitHosting ==
    /\ SheetIdle
    /\ apis \in ProjectStates
    /\ runs = [r \in 1..MaxRuns |-> NotStarted]
    /\ CallsIdle

\* main up to the answer of the GET: existing = find_model_api(...)
FindModelApi ==
    \E r \in 1..MaxRuns :
        /\ runs[r].at = "start"
        /\ runs' = [runs EXCEPT ![r] = [at |-> "looked", existing |-> find_model_api(apis, DEFAULT_NAME)]]
        /\ UNCHANGED <<apis, sheet, calls>>

\* main when existing is set: "Model API already exists", return
AlreadyExists ==
    \E r \in 1..MaxRuns :
        /\ runs[r].at = "looked"
        /\ runs[r].existing
        /\ runs' = [runs EXCEPT ![r].at = "found"]
        /\ UNCHANGED <<apis, sheet, calls>>

\* main when existing is not set: the payload is built and posted
CreateModelApi ==
    \E r \in 1..MaxRuns :
        /\ runs[r].at = "looked"
        /\ ~runs[r].existing
        /\ apis' = Post(apis, DEFAULT_NAME, r)
        /\ runs' = [runs EXCEPT ![r].at = "created"]
        /\ UNCHANGED <<sheet, calls>>

NextHosting == FindModelApi \/ AlreadyExists \/ CreateModelApi

SpecHosting == InitHosting /\ [][NextHosting]_vars

\* the endpoints of the functions that are called: one number, one string
CallEndpoints ==
    {InvokeParams, <<[name |-> <<"n", "a", "m", "e">>, type |-> "string", is_array |-> FALSE]>>}

CallArgs == {NumCell(5, 0), StrCell(<<"a", Q>>)}

CallOutcomes ==
    {UploadReturns(<<"{", "\"", "r", "e", "s", "u", "l", "t", "\"", ":", " ", "[", "1", ",", " ", "2", "]", "}">>), UploadThrowsWithResponse(<<"{", "\"", "m", "e", "s", "s", "a", "g", "e", "\"", ":", " ", "\"", "b", "a", "d", " ", "i", "n", "p", "u", "t", "\"", "}">>, TRUE),
     TryThrows(<<"T", "h", "e", " ", "o", "p", "e", "r", "a", "t", "i", "o", "n", " ", "h", "a", "s", " ", "t", "i", "m", "e", "d", " ", "o", "u", "t">>)}

InitCalls ==
    /\ SheetIdle
    /\ HostingIdle
    /\ CallsIdle

\* the host calls a generated function on thread t; the first statement
\* sets ServicePointManager.SecurityProtocol
Enter ==
    \E t \in 1..MaxCalls, params \in CallEndpoints, arg \in CallArgs :
        /\ threads[t].at = "ready"
        /\ securityProtocol' = Tls12OrTls13
        /\ threads' = [threads EXCEPT ![t] = Entered(params, arg)]
        /\ UNCHANGED <<sheet, hosting>>

\* string jsonPayload = ...
Build ==
    \E t \in 1..MaxCalls :
        /\ threads[t].at = "entered"
        /\ threads' = [threads EXCEPT ![t] = PayloadBuilt(threads[t])]
        /\ UNCHANGED <<securityProtocol, sheet, hosting>>

\* client.UploadString(url, "POST", jsonPayload) on the call's own WebClient
Upload ==
    \E t \in 1..MaxCalls, outcome \in CallOutcomes :
        /\ threads[t].at = "built"
        /\ threads' = [threads EXCEPT ![t] = Uploaded(threads[t], Uploading(threads, t), outcome)]
        /\ UNCHANGED <<securityProtocol, sheet, hosting>>

\* return ParseResult(response), or the text of a catch block
Finish ==
    \E t \in 1..MaxCalls :
        /\ threads[t].at = "uploaded"
        /\ threads' = [threads EXCEPT ![t] = Finished(threads[t])]
        /\ UNCHANGED <<securityProtocol, sheet, hosting>>

\* the value is handed to the host; the thread is free for the next call
Leave ==
    \E t \in 1..MaxCalls :
        /\ threads[t].at = "returned"
        /\ threads' = [threads EXCEPT ![t] = Ready]
        /\ UNCHANGED <<securityProtocol, sheet, hosting>>

NextCalls == Enter \/ Build \/ Upload \/ Finish \/ Leave

SpecCalls == InitCalls /\ [][NextCalls]_vars

Next ==
    \/ Serialize \/ BuildPayload \/ Extract \/ Shape \/ Invoke \/ Classify \/ ClassifyExample \/ HelpTopic \/ ParseRegex
    \/ GetModels \/ DiscoverModel \/ FinishDiscovery
    \/ Return

Spec == Init /\ [][Next]_vars

(***************************************************************************)
(* Reading emitted JSON text back (used only to state the properties)      *)
(***************************************************************************)
\* the elements of s[i..], split at the commas that are outside every string
\* and every nested bracket; cur is the element being read, acc those read
RECURSIVE SplitTop(_, _, _, _, _, _, _)
SplitTop(s, i, depth, inStr, esc, cur, acc) ==
    IF i > Len(s) THEN (IF cur = <<>> /\ acc = <<>> THEN <<>> ELSE Append(acc, cur))
    ELSE LET c == s[i] IN
        IF inStr
        THEN SplitTop(s, i + 1, depth, esc \/ c # Q, ~esc /\ c = BS, Append(cur, c), acc)
        ELSE IF c = Q THEN SplitTop(s, i + 1, depth, TRUE, FALSE, Append(cur, c), acc)
        ELSE IF c \in {"[", "{"} THEN SplitTop(s, i + 1, depth + 1, FALSE, FALSE, Append(cur, c), acc)
        ELSE IF c \in {"]", "}"} THEN SplitTop(s, i + 1, depth - 1, FALSE, FALSE, Append(cur, c), acc)
        ELSE IF c = "," /\ depth = 0 THEN SplitTop(s, i + 1, depth, FALSE, FALSE, <<>>, Append(acc, cur))
        ELSE SplitTop(s, i + 1, depth, FALSE, FALSE, Append(cur, c), acc)

IsArrayText(t) == Len(t) >= 2 /\ t[1] = "[" /\ t[Len(t)] = "]"

\* the element texts of a JSON array text
TopElements(t) == SplitTop(Sub(t, 2, Len(t) - 1), 1, 0, FALSE, FALSE, <<>>, <<>>)

\* the characters of a JSON string body with the escapes \\ and \" undone
RECURSIVE Unescape(_)
Unescape(s) ==
    IF s = <<>> THEN <<>>
    ELSE IF Head(s) = BS /\ Len(s) >= 2 THEN <<s[2]>> \o Unescape(Sub(s, 3, Len(s)))
    ELSE <<Head(s)>> \o Unescape(Tail(s))

\* the positions of the quotes of s[i..] that no backslash escapes
RECURSIVE UnescapedQuotes(_, _)
UnescapedQuotes(s, i) ==
    IF i > Len(s) THEN {}
    ELSE IF s[i] = BS THEN UnescapedQuotes(s, i + 2)
    ELSE IF s[i] = Q THEN {i} \cup UnescapedQuotes(s, i + 1)
    ELSE UnescapedQuotes(s, i + 1)

RECURSIVE Join(_, _)
Join(parts, sep) ==
    IF parts = <<>> THEN <<>>
    ELSE IF Len(parts) = 1 THEN parts[1]
    ELSE parts[1] \o sep \o Join(Tail(parts), sep)

RECURSIVE Flatten(_)
Flatten(rows) == IF rows = <<>> THEN <<>> ELSE Head(rows) \o Flatten(Tail(rows))

\* a cell that the array loops are to leave out
Dropped(c) == c = Empty \/ c = ErrorSentinel

Retained(cells) == SelectSeq(cells, LAMBDA c : ~Dropped(c))

Texts(cells, kind) == [i \in 1..Len(cells) |-> ElementText(cells[i], kind)]

\* the argument of the current call as the serializer sees it
Arg == NormalizeExcelValue(call.value)

Serialized == pc = "serialized"

\* the argument is a range with a single dimension; its cells in order
OneDimensional == Arg.t = "row" \/ (Arg.t = "grid" /\ (Arg.rows = 1 \/ Arg.cols = 1))

LineCells == IF Arg.t = "row" THEN Arg.cells
             ELSE IF Arg.rows = 1 THEN Arg.cells[1]
             ELSE [i \in 1..Arg.rows |-> Arg.cells[i][1]]

TwoDimensional == Arg.t = "grid" /\ Arg.rows > 1 /\ Arg.cols > 1

(***************************************************************************)
(* Claims about the serializer                                              *)
(***************************************************************************)
\* C1: an isArray=true Number parameter emits every retained numeric cell as
\* an unquoted JSON number token; [5, Empty, 7] gives exactly [5,7].
C1_NumberArrayUnquoted ==
    (/\ Serialized /\ call.kind = "Number" /\ call.allowArray
     /\ OneDimensional
     /\ \A i \in 1..Len(LineCells) : Dropped(LineCells[i]) \/ LineCells[i].t = "num")
    => ret.text = <<"[">> \o Join([i \in 1..Len(Retained(LineCells)) |->
                                    ToStringInvariant(Retained(LineCells)[i].m, Retained(LineCells)[i].e)],
                                 <<",">>) \o <<"]">>

\* C2: an Empty or ErrorSentinel cell serializes to the literal null, for
\* every kind and for isArray false and true.
C2_EmptyOrErrorIsNull ==
    (Serialized /\ Dropped(Arg)) => ret.text = TextNull

\* C3 as stated: a grid with more than one row and column is emitted as one
\* flat array of its retained cells in row-major order.
C3_GridFlat ==
    (Serialized /\ call.allowArray /\ TwoDimensional)
    => TopElements(ret.text) = Texts(Retained(Flatten(Arg.cells)), call.kind)

\* C3 amended: such a grid is emitted as an array of its rows in order, each
\* row an array of that row's retained cells from left to right; a range
\* with a single dimension is emitted as one array of its retained cells.
C3_GridRowByRow ==
    Serialized /\ call.allowArray =>
        /\ TwoDimensional =>
            /\ IsArrayText(ret.text)
            /\ Len(TopElements(ret.text)) = Arg.rows
            /\ \A r \in 1..Arg.rows :
                /\ IsArrayText(TopElements(ret.text)[r])
                /\ TopElements(TopElements(ret.text)[r]) = Texts(Retained(Arg.cells[r]), call.kind)
        /\ OneDimensional =>
            /\ IsArrayText(ret.text)
            /\ TopElements(ret.text) = Texts(Retained(LineCells), call.kind)

C3_Witness ==
    /\ Serialized /\ call.allowArray /\ call.kind = "String"
    /\ Arg = GridCell(<< <<NumCell(5, 0), NumCell(7, 0)>>, <<StrCell(<<",", Q>>), NumCell(5, 0)>> >>)
    /\ ret.text = <<"[", "[", "\"", "5", "\"", ",", "\"", "7", "\"", "]", ",", "[", "\"", ",", "\\", "\"", "\"", ",", "\"", "5", "\"", "]", "]">>

\* the scalar element texts of an emitted array, rows opened up
Leaves(t) ==
    IF TwoDimensional
    THEN Flatten([r \in 1..Len(TopElements(t)) |-> TopElements(TopElements(t)[r])])
    ELSE TopElements(t)

\* C4: inside an emitted array the Empty and ErrorSentinel cells are left
\* out: as many elements as retained cells, in the cells' order, none of
\* them null, and no leading, trailing or doubled separator.
C4_EmptyCellsElided ==
    (Serialized /\ call.allowArray /\ IsArrayValue(Arg)) =>
        LET cells == IF TwoDimensional THEN Flatten(Arg.cells) ELSE LineCells
            leaves == Leaves(ret.text)
        IN  /\ IsArrayText(ret.text)
            /\ Len(leaves) = Cardinality({i \in 1..Len(cells) : ~Dropped(cells[i])})
            /\ leaves = Texts(Retained(cells), call.kind)
            /\ \A i \in 1..Len(leaves) : leaves[i] # TextNull /\ leaves[i] # <<>>
            /\ \A i \in 1..Len(TopElements(ret.text)) : TopElements(ret.text)[i] # <<>>

C4_Witness ==
    /\ Serialized /\ call.allowArray /\ call.kind = "Date"
    /\ Arg = RowCell(<<ErrorSentinel, NumCell(5, 0), Empty>>)
    /\ ret.text = <<"[", "\"", "1", "9", "0", "0", "-", "0", "1", "-", "0", "4", "\"", "]">>

\* C5: with isArray=false a 1x1 Grid/Row serializes to the same text as its
\* single cell passed as a bare scalar, and with isArray=true a 1x1 Grid is
\* kept as a one-element array.
C5_SingleCellUnwrapped ==
    Serialized =>
        /\ (~call.allowArray /\ Arg.t = "grid" /\ Arg.rows = 1 /\ Arg.cols = 1)
            => ret.text = SerializeParamValue(Arg.cells[1][1], call.kind, FALSE)
        /\ (~call.allowArray /\ Arg.t = "row" /\ Len(Arg.cells) = 1)
            => ret.text = SerializeParamValue(Arg.cells[1], call.kind, FALSE)
        /\ (call.allowArray /\ Arg.t = "grid" /\ Arg.rows = 1 /\ Arg.cols = 1)
            => IsArrayText(ret.text) /\ Len(TopElements(ret.text)) = 1

\* the escaping of one character: a backslash and a quote get a backslash
EscapedChar(c) == IF c = BS \/ c = Q THEN <<BS, c>> ELSE <<c>>

\* C7: a String-kind scalar s is emitted as a quote, s with every backslash
\* and every quote preceded by one backslash, and a quote; undoing the
\* escapes gives s back and only the two delimiters are unescaped quotes.
C7_StringEscaping ==
    (Serialized /\ call.kind = "String" /\ ~call.allowArray /\ Arg.t = "str") =>
        LET out == ret.text
            body == Sub(out, 2, Len(out) - 1)
        IN  /\ Len(out) >= 2 /\ out[1] = Q /\ out[Len(out)] = Q
            /\ body = Flatten([i \in 1..Len(Arg.s) |-> EscapedChar(Arg.s[i])])
            /\ Unescape(body) = Arg.s
            /\ UnescapedQuotes(out, 1) = {1, Len(out)}

C7_Witness ==
    /\ Serialized /\ call.kind = "String" /\ ~call.allowArray
    /\ Arg = StrCell(<<BS, Q, "a">>)
    /\ ret.text = <<Q, BS, BS, BS, Q, "a", Q>>

(***************************************************************************)
(* Claims about the request body                                           *)
(***************************************************************************)
Built == pc = "built"

\* the key/fragment pair of the i-th parameter of the current call
Pair(i) ==
    <<Q>> \o call.params[i].name \o <<Q, ":", " ">>
        \o SerializeParamValue(call.args[i], ParamKindOf(call.params[i].type), call.params[i].is_array)

\* C6: the request body is {"data": {...}} holding one "name": fragment
\* pair per parameter, in parameter order, the name verbatim, the pairs
\* separated by one separator with none leading or trailing.
C6_RequestBody ==
    Built => ret.text = <<"{", "\"", "d", "a", "t", "a", "\"", ":", " ", "{">>
                            \o Join([i \in 1..Len(call.params) |-> Pair(i)], <<",", " ">>)
                            \o <<"}", "}">>

C6_Witness ==
    /\ Built
    /\ Len(call.params) = 2
    /\ call.params[1].name = <<"x">> /\ call.params[2].name = <<"r", "a", "t", "e">>
    /\ ret.text = <<"{", "\"", "d", "a", "t", "a", "\"", ":", " ", "{", "\"", "x", "\"", ":", " ", "5", ",", " ", "\"", "r", "a", "t", "e", "\"", ":", " ", "\"", "a", "\\", "\"", "\"", "}", "}">>

(***************************************************************************)
(* Claims about the extractor                                              *)
(***************************************************************************)
Extracted == pc = "extracted"

\* the value after the first "result": of the body is there in full
FirstValueWhole == call.keyed /\ (call.pre.first # <<>> \/ call.cut = Len(call.val))

\* the text of the value after the first "result": of the body
FirstValue == IF call.pre.first # <<>> THEN call.pre.first ELSE call.val

ExampleBody == <<"{", "\"", "o", "t", "h", "e", "r", "\"", ":", " ", "[", "1", ",", "\"", "a", "}", "\"", ",", "2", "]", ",", " ", "\"", "r", "e", "s", "u", "l", "t", "\"", ":", " ", "{", "\"", "x", "\"", ":", " ", "[", "1", ",", "2", ",", "[", "3", ",", "4", "]", "]", "}", "}">>

\* C8: when the value after the first "result": is a well-formed array,
\* object, string or bare primitive, the fragment returned is exactly the
\* text of that value, delimiters included, surrounding white space not;
\* brackets and quotes inside its strings do not end it early. The body
\* {"other": [1,"a}",2], "result": {"x": [1,2,[3,4]]}} gives {"x": [1,2,[3,4]]}.
C8_ExactSpan ==
    (Extracted /\ FirstValueWhole) =>
        /\ ret.found
        /\ ret.value = FirstValue
        /\ call.json = ExampleBody => ret.value = <<"{", "\"", "x", "\"", ":", " ", "[", "1", ",", "2", ",", "[", "3", ",", "4", "]", "]", "}">>

C8_Witness ==
    /\ Extracted
    /\ call.json = ExampleBody
    /\ ret.found
    /\ ret.value = <<"{", "\"", "x", "\"", ":", " ", "[", "1", ",", "2", ",", "[", "3", ",", "4", "]", "]", "}">>

\* C9: for a body that is a JSON object with a top-level result key the
\* value of that key is returned, whatever the fields before it contain.
C9_TopLevelResult ==
    (Extracted /\ call.keyed /\ call.cut = Len(call.val) /\ call.tail # <<>>) =>
        ret.found /\ ret.value = call.val

\* C10: a body without a result key, and a bracketed or quoted result value
\* that does not close before the end of the input, make the extraction
\* fail with a fixed error text, the one for the missing key differing from
\* those for an unterminated value.
C10_Failures ==
    Extracted =>
        /\ ~call.keyed => ~ret.found /\ ret.value = <<>> /\ ret.error = ErrNoResult
        /\ (call.keyed /\ call.pre.first = <<>> /\ call.cut > 0 /\ call.cut < Len(call.val)) =>
            /\ ~ret.found
            /\ ret.value = <<>>
            /\ ret.error = (IF call.val[1] = Q THEN ErrUnterminatedString ELSE ErrUnterminatedValue)
            /\ ret.error # ErrNoResult

C10_Witness ==
    /\ Extracted
    /\ call.keyed /\ call.pre.first = <<>>
    /\ call.val = <<"[", "\"", "a", "]", "\"", ",", "\"", "b", "\\", "\"", "]", "\"", "]">> /\ call.cut = 5
    /\ ~ret.found
    /\ ret.error = ErrUnterminatedValue

(***************************************************************************)
(* Claims about the shaper                                                 *)
(***************************************************************************)
Shaped == pc = "shaped"

\* the widths of the rows the fragment was written from, and the largest
Widths == {Len(call.rows[r]) : r \in 1..Len(call.rows)}

MaxWidth == CHOOSE w \in Widths : \A v \in Widths : v <= w

\* the rows of the fragment as a rectangle, "" where a row has no element
Rectangle ==
    [t |-> "grid", rows |-> Len(call.rows), cols |-> MaxWidth,
     cells |-> [r \in 1..Len(call.rows) |->
                  [c \in 1..MaxWidth |->
                      IF c <= Len(call.rows[r]) THEN call.rows[r][c] ELSE StrCell(<<>>)]]]

JaggedExample == <<"[", "[", "1", ",", "2", "]", ",", "[", "3", "]", "]">>

\* C11: a fragment beginning with [[ whose R rows are not all empty, and are
\* not one row of one element, is shaped into the R x C grid with C the
\* largest row width: cell (r,c) is the c-th parsed element of row r when the
\* row has one and the empty string otherwise, rows in order; [[1,2],[3]]
\* gives the 2 x 2 grid [[1,2],[3,""]].
C11_JaggedPadded ==
    (Shaped /\ call.form = "nested") =>
        /\ (MaxWidth > 0 /\ ~(Len(call.rows) = 1 /\ MaxWidth = 1)) => ret.value = Rectangle
        /\ call.frag = JaggedExample =>
              ret.value = GridCell(<< <<NumCell(1, 0), NumCell(2, 0)>>,
                                      <<NumCell(3, 0), StrCell(<<>>)>> >>)

C11_Witness ==
    /\ Shaped
    /\ call.frag = JaggedExample
    /\ ret.value.t = "grid"
    /\ ret.value.rows = 2 /\ ret.value.cols = 2
    /\ ret.value.cells[2][2] = StrCell(<<>>)

\* C12: shaping never gives a 1 x 1 grid: a single-level array of one element
\* and a nested array of one row of one element give the bare scalar, and a
\* single-level array of N >= 2 elements gives the 1 x N row of its elements
\* in order.
C12_NoSingleCellGrid ==
    Shaped =>
        /\ ~(ret.value.t = "grid" /\ ret.value.rows = 1 /\ ret.value.cols = 1)
        /\ (call.form \in {"flat", "nested"} /\ Len(call.rows) = 1 /\ Len(call.rows[1]) = 1)
              => ret.value = call.rows[1][1]
        /\ (call.form = "flat" /\ Len(call.rows[1]) >= 2)
              => ret.value = GridCell(<<call.rows[1]>>)

C12_Witness ==
    /\ Shaped
    /\ call.frag = <<"[", "[", "4", "2", "]", "]">>
    /\ ret.value = NumCell(42, 0)

(***************************************************************************)
(* Claims about dates and numbers                                          *)
(***************************************************************************)
\* the day an ISO string YYYY-MM-DD names
IsoDay(s) ==
    [y |-> DigitsValue(Sub(s, 1, 4)), mo |-> DigitsValue(Sub(s, 6, 7)), d |-> DigitsValue(Sub(s, 9, 10))]

\* days from 1970-01-01 to the day, counted over whole 400-year cycles
DaysFromCivil(day) ==
    LET y == IF day.mo <= 2 THEN day.y - 1 ELSE day.y
        era == y \div 400
        yoe == y - era * 400
        doy == (153 * (IF day.mo > 2 THEN day.mo - 3 ELSE day.mo + 9) + 2) \div 5 + day.d - 1
        doe == yoe * 365 + yoe \div 4 - yoe \div 100 + doy
    IN  era * 146097 + doe - 719468

\* the serial number of the day: days since 1899-12-30, the count that
\* DateTime.FromOADate reads and that the sheet shows from 1900-03-01 on
SerialOf(day) == DaysFromCivil(day) + 25569

Quoted(s) == <<Q>> \o s \o <<Q>>

DateCall == Serialized /\ call.kind = "Date"

\* C13: a Date parameter given the serial number of a calendar day and the
\* same parameter given the ISO string of that day are serialized to the same
\* JSON string, the quoted YYYY-MM-DD of the day.  A serial number is a number
\* below 10^9, where the Unix times begin.
C13_SerialAndIsoAgree ==
    DateCall =>
        /\ (call.value.t = "str" /\ call.value.s \in DateStrings) =>
              /\ ret.text = Quoted(call.value.s)
              /\ ret.text = SerializeParamValue(NumCell(SerialOf(IsoDay(call.value.s)), 0),
                                                "Date", call.allowArray)
        /\ (call.value.t = "num" /\ ~GEPow10(call.value.m, call.value.e, 9)) =>
              \A s \in DateStrings :
                  (OADays(call.value.m, call.value.e) = SerialOf(IsoDay(s)))
                      => ret.text = Quoted(s)

C13_Witness ==
    /\ DateCall
    /\ call.value = NumCell(45000, 0)
    /\ ret.text = Quoted(<<"2", "0", "2", "3", "-", "0", "3", "-", "1", "5">>)

\* a and b are the same number
SameNumber(a, b) ==
    LET low == IF a.e < b.e THEN a.e ELSE b.e
    IN  a.m * Pow10(b.e - low) = b.m * Pow10(a.e - low)

\* strings that are numbers, with the number each one is
NumericStrings ==
    {[s |-> <<"5">>, m |-> 5, e |-> 0], [s |-> <<" ", "7", ".", "5">>, m |-> 75, e |-> 1], [s |-> <<"0">>, m |-> 0, e |-> 0]}

NumberCall == Serialized /\ call.kind = "Number"

\* C14: parsing the Number serialization of a scalar number v with
\* ParseSingleValue gives a number equal to v, and a numeric string is
\* serialized to the same text as the number it parses to.
C14_NumberRoundTrip ==
    NumberCall =>
        /\ call.value.t = "num" =>
              /\ ParseSingleValue(ret.text).t = "num"
              /\ SameNumber(ParseSingleValue(ret.text), call.value)
        /\ call.value.t = "str" =>
              \A n \in NumericStrings :
                  call.value.s = n.s =>
                      ret.text = SerializeParamValue(NumCell(n.m, n.e), "Number", call.allowArray)

C14_Witness ==
    /\ NumberCall
    /\ call.value = NumCell(5, 2)
    /\ ret.text = <<"0", ".", "0", "5">>
    /\ ParseSingleValue(ret.text) = NumCell(5, 2)

(***************************************************************************)
(* Claims about schema inference                                           *)
(***************************************************************************)
\* a model of the loop has just been looked at
Discovered == call.op = "discover"

\* inference ran for it: the model has an id, its curl was parsed and its
\* payload was read
Inferred == Discovered /\ call.model.has_id /\ call.curl = "parsed" /\ ~ret.raised

\* C15: every emitted endpoint has at least one parameter; a model with
\* neither a signature nor an example object, or whose inference gives no
\* parameter, is skipped and emits nothing; the build is started only when an
\* endpoint remains.
C15_EveryEndpointHasParameters ==
    /\ \A k \in 1..Len(endpoints) : endpoints[k].parameters # <<>>
    /\ Len(endpoints) <= cursor
    /\ pc # "raised"
    /\ Discovered =>
          /\ ret.emitted <=> (Inferred /\ ret.parameters # <<>>)
          /\ ret.emitted =>
                endpoints[Len(endpoints)] = [name |-> ret.name, parameters |-> ret.parameters]
          /\ (call.signature = PyNone /\ call.curl_data.t # "dict") => ~ret.emitted
    /\ pc = "building" => endpoints # <<>>
    /\ pc = "no_endpoints" => endpoints = <<>>

\* C16: in every emitted endpoint each parameter name is non-empty and no
\* two parameters have the same name.
C16_NamesUniqueNonEmpty ==
    \A k \in 1..Len(endpoints) :
        \A i, j \in 1..Len(endpoints[k].parameters) :
            /\ endpoints[k].parameters[i].name # <<>>
            /\ i # j => endpoints[k].parameters[i].name # endpoints[k].parameters[j].name

\* a C# identifier of ASCII letters and digits that starts with a letter
IsIdentifier(name) ==
    /\ name # <<>>
    /\ \A k \in 1..Len(name) : IsAlnum(name[k])
    /\ ~IsDigit(name[1])

\* C17: the function names of the endpoints emitted in one run are pairwise
\* distinct, and each is a valid identifier, when the model names are
\* pairwise distinct.
C17_FunctionNamesDistinct ==
    \A i, j \in 1..Len(endpoints) :
        /\ IsIdentifier(endpoints[i].name)
        /\ i # j => endpoints[i].name # endpoints[j].name

Classified == pc = "classified"

\* the names and samples for which the date heuristic fires
DateNames == {<<"s", "t", "a", "r", "t", "D", "a", "t", "e">>, <<"D", "O", "B">>, <<"b", "i", "r", "t", "h", "_", "d", "t">>}

DateSamples == {PyStr(<<"2", "0", "2", "4", "-", "0", "1", "-", "1", "5">>), PyStr(<<"2", "0", "2", "4", "/", "0", "1", "/", "1", "5", " ", "1", "0", ":", "0", "0">>)}

HeuristicFires == call.spec.name \in DateNames \/ call.example_value \in DateSamples

\* C19: a declared base type of the mapping table gives its fixed kind for
\* every field name and sample, except that string / str gives Date when the
\* date heuristic fires; the heuristic changes no other declared type.
C19_BaseTypeMapping ==
    Classified =>
        /\ call.spec.type \in BoolTypes => ParamKindOf(ret.type) = "Bool"
        /\ call.spec.type \in IntegerTypes \cup FloatTypes => ParamKindOf(ret.type) = "Number"
        /\ call.spec.type \in DateTypes => ParamKindOf(ret.type) = "Date"
        /\ call.spec.type \in StringTypes =>
              ParamKindOf(ret.type) = (IF HeuristicFires THEN "Date" ELSE "String")
        /\ call.spec.type \in BaseTypeNames => ~ret.is_array

C19_Witness ==
    /\ Classified
    /\ call.spec.type = <<"s", "t", "r", "i", "n", "g">>
    /\ call.spec.name = <<"x">>
    /\ call.example_value = PyStr(<<"2", "0", "2", "4", "-", "0", "1", "-", "1", "5">>)
    /\ ret.type = "date"

(***************************************************************************)
(* Claims about the generated function                                     *)
(***************************************************************************)
Invoked == pc = "invoked"

IsErrorText(value, prefix) == value.t = "str" /\ StartsWith(value.s, prefix)

\* C20: every invocation of a generated function returns a value and lets
\* no exception escape: the shaped result on success, a string that starts
\* with "Error: " when the extraction fails, a string that starts with
\* "API Error: " for an HTTP error that carries a response, and a string that
\* starts with "Error: " for every other failure.
C20_AlwaysReturnsValue ==
    Invoked =>
        /\ ret.returned
        /\ call.outcome.kind = "response" =>
              IF TryExtractResultValue(call.outcome.json).found
              THEN ret.value = ShapeResult(TryExtractResultValue(call.outcome.json).value)
              ELSE IsErrorText(ret.value, ErrorPrefix)
        /\ call.outcome.kind = "WebException" =>
              IsErrorText(ret.value, IF call.outcome.has_response THEN ApiErrorPrefix ELSE ErrorPrefix)
        /\ call.outcome.kind = "Exception" => IsErrorText(ret.value, ErrorPrefix)

(***************************************************************************)
(* Claims about the parameter list and the classification                  *)
(***************************************************************************)
\* the signature entries that the registry gave for the model, <<>> if none
EntriesOf(signature) ==
    IF signature.t = "none" THEN <<>>
    ELSE IF signature.signature_inputs.t = "list" THEN signature.signature_inputs.items
    ELSE <<>>

HasName(entry) == entry.name # <<>>

NamesOf(list) == [k \in 1..Len(list) |-> list[k].name]

KeysOf(d) == [k \in 1..Len(d.items) |-> d.items[k].key]

\* the example that inference looks at: the payload of the curl command when
\* the registry gave no entry and the page gave a payload, else the example of
\* the registry
ExampleOf(signature, curl_data) ==
    IF EntriesOf(signature) = <<>> /\ curl_data.t = "dict"
    THEN DictGetOrNone(curl_data, KeyData)
    ELSE IF signature.t = "none" THEN PyNone
    ELSE IF signature.example.t = "dict" THEN DictGetOrNone(signature.example, KeyData)
    ELSE PyNone

\* C22 as stated: with signature entries the list has one parameter per
\* entry, the i-th named after the i-th entry; otherwise, with an example
\* object, one parameter per key of the object in key order.
C22_OnePerEntry ==
    Inferred =>
        IF EntriesOf(call.signature) # <<>>
        THEN NamesOf(ret.parameters) = NamesOf(EntriesOf(call.signature))
        ELSE ExampleOf(call.signature, call.curl_data).t = "dict" =>
                NamesOf(ret.parameters) = KeysOf(ExampleOf(call.signature, call.curl_data))

\* C22 amended: the list has one parameter per signature entry that has a
\* name, in listed order, and no key of the example is added to them; when no
\* entry has a name (or there is none) and an example object is present, it
\* has one parameter per key of the object in key order; else it is empty.
C22_OnePerNamedEntry ==
    Inferred =>
        IF SelectSeq(EntriesOf(call.signature), HasName) # <<>>
        THEN NamesOf(ret.parameters) = NamesOf(SelectSeq(EntriesOf(call.signature), HasName))
        ELSE IF ExampleOf(call.signature, call.curl_data).t = "dict"
        THEN NamesOf(ret.parameters) = KeysOf(ExampleOf(call.signature, call.curl_data))
        ELSE ret.parameters = <<>>

\* entries without a name next to an example object: the keys of the example
\* are taken
C22_Witness ==
    /\ Inferred
    /\ EntriesOf(call.signature) # <<>>
    /\ SelectSeq(EntriesOf(call.signature), HasName) = <<>>
    /\ Len(ret.parameters) = 2
    /\ ret.emitted

\* the declared types of the model that wrap an element type
WrapperTypes == {<<"t", "e", "n", "s", "o", "r">>, <<"a", "r", "r", "a", "y">>, <<"a", "r", "r", "a", "y", "<", "d", "o", "u", "b", "l", "e", ">">>, <<"A", "r", "r", "a", "y", "(", "s", "t", "r", "i", "n", "g", ")">>, <<"a", "r", "r", "a", "y", "[", " ", "l", "o", "n", "g", " ", "]">>, <<"a", "r", "r", "a", "y", "<", "a", "r", "r", "a", "y", "<", "d", "o", "u", "b", "l", "e", ">", ">">>}

\* the element type that the declared type of the entry wraps, wrappers of
\* wrappers unwrapped to their innermost element
InnermostElement ==
    CASE call.spec.type = <<"t", "e", "n", "s", "o", "r">> -> call.spec.dtype
      [] call.spec.type = <<"a", "r", "r", "a", "y">> -> call.spec.items
      [] call.spec.type = <<"a", "r", "r", "a", "y", "<", "d", "o", "u", "b", "l", "e", ">">> -> <<"d", "o", "u", "b", "l", "e">>
      [] call.spec.type = <<"A", "r", "r", "a", "y", "(", "s", "t", "r", "i", "n", "g", ")">> -> <<"s", "t", "r", "i", "n", "g">>
      [] call.spec.type = <<"a", "r", "r", "a", "y", "[", " ", "l", "o", "n", "g", " ", "]">> -> <<"l", "o", "n", "g">>
      [] call.spec.type = <<"a", "r", "r", "a", "y", "<", "a", "r", "r", "a", "y", "<", "d", "o", "u", "b", "l", "e", ">", ">">> -> <<"d", "o", "u", "b", "l", "e">>
      [] OTHER -> <<>>

\* the kind of a base type of the mapping table
BaseKind(type) ==
    CASE type \in BoolTypes -> "Bool"
      [] type \in IntegerTypes \cup FloatTypes -> "Number"
      [] type \in DateTypes -> "Date"
      [] type \in StringTypes -> IF HeuristicFires THEN "Date" ELSE "String"
      [] OTHER -> "String"

\* C23: a declared type that is a tensor or an array wrapper is classified as
\* an array of the kind of its element type, also when the element type is a
\* wrapper itself (array<array<double>> is an array of Number); every other
\* declared type is not an array.
C23_WrappersUnwrapped ==
    Classified =>
        /\ ret.is_array <=> call.spec.type \in WrapperTypes
        /\ (call.spec.type \in WrapperTypes /\ InnermostElement # <<>>) =>
              ParamKindOf(ret.type) = BaseKind(InnermostElement)

\* the kind that the runtime type of a sample gives
SampleKind(sample) ==
    CASE sample.t = "bool" -> "Bool"
      [] sample.t \in {"int", "float"} -> "Number"
      [] OTHER -> "String"

\* the entry declares a type that the mapping table does not hold and that
\* wraps nothing
Unrecognized == call.spec.type = <<"b", "i", "n", "a", "r", "y">>

\* C24: for a signature entry whose declared type the mapping table does not
\* hold, the kind is that of the runtime type of the sample of the entry:
\* Bool for a boolean, Number for a number, String for anything else and for
\* no sample.
C24_UnrecognizedUsesSample ==
    (Classified /\ Unrecognized) =>
        /\ ParamKindOf(ret.type) = SampleKind(call.example_value)
        /\ ~ret.is_array

Sampled == pc = "sampled"

\* the date heuristic fires for the key and its value
SampleHeuristicFires == call.param_name \in DateNames \/ call.param_value \in DateSamples

\* the kind of the first bool, number or string found in the list, nested
\* lists included; String if there is none
RECURSIVE ResolvableKind(_)
ResolvableKind(items) ==
    IF items = <<>> THEN "String"
    ELSE IF Head(items).t = "list"
    THEN IF ResolvableKind(Head(items).items \o Tail(items)) = "String"
         THEN ResolvableKind(Tail(items))
         ELSE ResolvableKind(Head(items).items \o Tail(items))
    ELSE IF Head(items).t \in {"bool", "int", "float", "str"} THEN SampleKind(Head(items))
    ELSE ResolvableKind(Tail(items))

WithDates(kind) == IF kind = "String" /\ SampleHeuristicFires THEN "Date" ELSE kind

\* C25: with no declared type a list sample is an array of the kind of its
\* scalar elements, String only if the list is empty or holds no bool, number
\* or string; a bool, number or string sample is no array and has the
\* matching kind (a String kind read as Date where the date heuristic fires).
C25_SampleKinds ==
    Sampled =>
        IF call.param_value.t = "list"
        THEN ret.is_array /\ ParamKindOf(ret.type) = WithDates(ResolvableKind(call.param_value.items))
        ELSE /\ ~ret.is_array
             /\ ParamKindOf(ret.type) =
                   (IF call.param_value.t = "str" THEN WithDates("String")
                    ELSE SampleKind(call.param_value))

(***************************************************************************)
(* Claims about single values, dates and links                             *)
(***************************************************************************)
\* C26: ParseSingleValue gives the number when the trimmed text parses as
\* one; otherwise it gives the trimmed text without one leading and one
\* trailing double quote, the quotes inside that layer left in place: the
\* content the string result was written from.
C26_OneQuoteLayer ==
    (Shaped /\ call.form = "scalar") => ret.value = call.rows[1][1]

\* numbers with the day each one is: at and above 10^12 as milliseconds, at
\* and above 10^9 as seconds, zero, a negative number and a serial number
DatedNumbers ==
    {[value |-> NumCell(1, -12), day |-> <<"2", "0", "0", "1", "-", "0", "9", "-", "0", "9">>], [value |-> NumCell(17, -11), day |-> <<"2", "0", "2", "3", "-", "1", "1", "-", "1", "4">>],
     [value |-> NumCell(1, -9), day |-> <<"2", "0", "0", "1", "-", "0", "9", "-", "0", "9">>], [value |-> NumCell(17, -8), day |-> <<"2", "0", "2", "3", "-", "1", "1", "-", "1", "4">>],
     [value |-> NumCell(0, 0), day |-> <<"1", "8", "9", "9", "-", "1", "2", "-", "3", "0">>], [value |-> NumCell(-15, 1), day |-> <<"1", "8", "9", "9", "-", "1", "2", "-", "2", "9">>],
     [value |-> NumCell(45000, 0), day |-> <<"2", "0", "2", "3", "-", "0", "3", "-", "1", "5">>]}

\* the Date serialization of a number is the day of the branch it falls in
NumbersDated ==
    \A n \in DatedNumbers : call.value = n.value => ret.text = Quoted(n.day)

\* strings of the model that are neither a number nor a date
PlainStrings == Strings \cup PaddedStrings

\* C27 as stated: a number n is formatted as Unix milliseconds when
\* n >= 10^12, else as Unix seconds when n >= 10^9, else as a serial date,
\* zero and negative numbers included; a string that is neither a number nor
\* a date is emitted unchanged as a JSON string.
C27_DateBranches ==
    DateCall =>
        /\ NumbersDated
        /\ (call.value.t = "str" /\ call.value.s \in PlainStrings) =>
              ret.text = Quoted(EscapeJsonString(call.value.s))

\* C27 amended: the same branches for a number; a string that is neither a
\* number nor a date is emitted as a JSON string with the white space at its
\* two ends removed.
C27_DateBranchesTrimmed ==
    DateCall =>
        /\ NumbersDated
        /\ (call.value.t = "str" /\ call.value.s \in PlainStrings) =>
              ret.text = Quoted(EscapeJsonString(Trim(call.value.s)))

\* 10^12 itself is taken as milliseconds
C27_Witness ==
    /\ DateCall
    /\ call.value = NumCell(1, -12)
    /\ ret.text = Quoted(<<"2", "0", "0", "1", "-", "0", "9", "-", "0", "9">>)

Linked == call.op = "help"

EndsWith(s, p) == Len(s) >= Len(p) /\ Sub(s, Len(s) - Len(p) + 1, Len(s)) = p

\* s without the ending p, when it ends with p
WithoutEnding(s, p) == IF EndsWith(s, p) THEN Sub(s, 1, Len(s) - Len(p)) ELSE s

\* the base URL with a trailing slash and then a trailing ":443" removed
PortStripped(domino_base_url) == WithoutEnding(WithoutEnding(domino_base_url, <<"/">>), <<":", "4", "4", "3">>)

\* whether the URL has a segment /models/<hex id>/
HasModelSegment(endpoint_url) ==
    \E i \in 1..Len(endpoint_url), j \in 1..Len(endpoint_url) :
        /\ j > i + 8
        /\ Sub(endpoint_url, i, i + 7) = <<"/", "m", "o", "d", "e", "l", "s", "/">>
        /\ \A k \in (i + 8)..(j - 1) : endpoint_url[k] \in HexChars
        /\ endpoint_url[j] = "/"

\* C30: the help link is the empty string when the endpoint URL has no
\* /models/<hex id>/ segment; otherwise it begins with the base URL from
\* which only a trailing ":443" and a trailing slash are removed, followed by
\* /models/ and the id.
C30_OnlyPortStripped ==
    Linked =>
        IF HasModelSegment(call.endpoint_url)
        THEN StartsWith(ret.help_topic_url, PortStripped(call.domino_base_url) \o <<"/", "m", "o", "d", "e", "l", "s", "/">>)
        ELSE ret.help_topic_url = <<>>

(***************************************************************************)
(* Claims about the older generator and the endpoint of the add-in         *)
(***************************************************************************)
RegexParsed == call.op = "regex"

\* C28: for a response whose result is a nested array of two or more rows,
\* the ParseResult of create_udfs.py extracts the whole array and returns a
\* grid with as many rows as the array has.
C28_WholeArrayExtracted ==
    (RegexParsed /\ call.form = "nested" /\ Len(call.rows) >= 2
        /\ \E r \in 1..Len(call.rows) : call.rows[r] # <<>>) =>
        /\ ret.extracted = Found(call.frag)
        /\ ret.value.t = "grid"
        /\ ret.value.rows = Len(call.rows)

\* the Model APIs of the name that the runs created
Created == {k \in 1..Len(apis) : apis[k].name = DEFAULT_NAME /\ apis[k].by # 0}

\* the POST requests a run has sent
PostsOf(r) == Cardinality({k \in 1..Len(apis) : apis[k].by = r})

\* C29: a run that found a non-archived Model API of exactly the requested
\* name sends no POST and a run that found none sends exactly one; and after
\* any number of runs, one after the other or overlapping, at most one Model
\* API of the name has been created.
C29_AtMostOneCreated ==
    /\ \A r \in 1..MaxRuns :
          /\ runs[r].at = "found" => PostsOf(r) = 0
          /\ runs[r].at = "created" => PostsOf(r) = 1
    /\ Cardinality(Created) <= 1

(***************************************************************************)
(* Claims about calls at the same time                                     *)
(***************************************************************************)
\* what the call of thread t sends and returns when no other call runs
AloneBody(t) == JsonPayload(threads[t].params, <<threads[t].arg>>)

AloneResult(t) == GeneratedFunction(threads[t].outcome)

\* C21: under every interleaving of the calls of generated functions, each
\* call's request body and returned result are what the same call produces
\* alone: the body is the payload of its own arguments, the result is the
\* shaped answer to its own request, and the one thing the calls share, the
\* security protocol, has the value that every call sets.
C21_CallsDoNotInterfere ==
    \A t \in 1..MaxCalls :
        /\ threads[t].at # "ready" => securityProtocol = Tls12OrTls13
        /\ threads[t].at \in {"uploaded", "returned"} => threads[t].body = AloneBody(t)
        /\ threads[t].at = "returned" =>
              threads[t].result = AloneResult(t)

\* two calls with different arguments are in flight, both past the request
C21_Witness ==
    /\ threads[1].at = "returned"
    /\ threads[2].at = "uploaded"
    /\ threads[1].body # threads[2].body

====
